---- MODULE Spec2Model ----
(***************************************************************************)
(* Refresh scheduler and cache-aside stats service of axpress-api.         *)
(*                                                                         *)
(* The scheduler is EthosStatsScheduler of                                 *)
(* src/services/ethos-stats-scheduler.ts; a refresh cycle is one call of   *)
(* EthosStatsService.refreshCache (src/services/ethos-stats-service.ts),   *)
(* which suspends twice: on the upstream GET and on the store write.       *)
(*                                                                         *)
(* src/app.ts carries another revision of the class (isStarted/isRunning   *)
(* flags, start() not awaiting run()); the class modelled is the one of    *)
(* services/ethos-stats-scheduler.ts.                                      *)
(*                                                                         *)
(* Model time advances in ticks; TicksPer12h ticks make up the 12 hours of *)
(* SCHEDULE_INTERVAL_MS and of CACHE_TTL_SECONDS.                          *)
(***************************************************************************)
EXTENDS Integers, Sequences, FiniteSets, TLC

\* ------------------------------------------------------------------ bounds
MaxStarts == 2          \* start() calls issued by the environment
MaxCalls == 4           \* refreshCache calls observed
TicksPer12h == 2        \* resolution of model time
MaxPayload == 2         \* distinct upstream payloads
MaxReads == 2           \* getStats() / repository calls in flight at once
TicksPerWindow == 2     \* resolution of model time within a rate-limit window
MaxRequests == 2        \* requests a client may make in one window
MaxHits == 4            \* hits counted under one rate-limit key
MaxTimeout == 2         \* timeoutMs of waitForRedis, in ticks
MaxEvents == 3          \* events the ioredis client emits
MaxCloses == 2          \* closeRedisConnection() calls

\* --------------------------------------------------------------- constants
Null == 0                               \* null: timeoutId, a missing value
NoTtl == -1                             \* ttlSeconds undefined; key without expiry
SCHEDULE_INTERVAL_MS == TicksPer12h     \* 12 * 60 * 60 * 1000 ms, in ticks
CACHE_TTL_SECONDS == TicksPer12h        \* 43200 s, in ticks

RATE_LIMIT_WINDOW_MS == TicksPerWindow  \* 900000 ms by default, in ticks
RATE_LIMIT_MAX_REQUESTS == MaxRequests  \* 100 by default

REDIS_KEY == "ethos:stats"
ETHOS_API_URL ==
    "https://api.ethos.network/api/v2/votes/stats?type=attestation&activityId=223"

Payloads == 1..MaxPayload               \* bodies the upstream API returns
Handles == 1..(MaxStarts + 1)           \* timer handles (reused once dead)
ActIds == 1..(MaxStarts + 1)            \* activations of run()

VARIABLES
    timeoutId,      \* EthosStatsScheduler.timeoutId: Null or a timer handle
    isStopping,     \* EthosStatsScheduler.isStopping
    timers,         \* pending setTimeout timers: handle -> ticks until due
    cycles,         \* in-flight run() activations: id -> [by, pc, data]
    startCalls,     \* the start() calls so far, with their promise state
    store,          \* text held under REDIS_KEY (NoKey when absent)
    storeTtl,       \* ticks until the key expires (NoTtl: never)
    calls,          \* in-flight getStats() and repository calls: id -> call
    lastCall,       \* the latest of these calls that settled
    lastRefresh,    \* result of the latest refreshCache() call that settled
    refreshCalls,   \* number of refreshCache() calls made so far
    lastOutcome,    \* how the latest cycle ended, "none" once a new one began
    prevOutcome,    \* lastOutcome as it was when the latest cycle began
    stopInFlight,   \* the latest stop() was called with a cycle in flight
    sinceEnd,       \* ticks elapsed since the latest cycle ended (-1: never)
    uncaught,       \* a rejection escaped a timer callback
    proc,           \* the server process: NODE_ENV, lifecycle, calls made
    mw,             \* a middleware called on its own: arguments and effects
    limiter,        \* rate-limit counters in Redis and each client's latest hits
    redis           \* the ioredis client: status, quits, promises of redis.ts

vars == <<timeoutId, isStopping, timers, cycles, startCalls, store, storeTtl,
          calls, lastCall, lastRefresh,
          refreshCalls, lastOutcome, prevOutcome, stopInFlight, sinceEnd,
          uncaught, proc, mw, limiter, redis>>

schedVars == <<timeoutId, isStopping, timers>>
storeVars == <<store, storeTtl>>
callVars == <<calls, lastCall>>
histVars == <<lastOutcome, prevOutcome>>
cycleVars == <<cycles, refreshCalls, lastOutcome, prevOutcome, lastRefresh>>
edgeVars == <<proc, mw, limiter, redis>>
coreVars == <<schedVars, cycleVars, startCalls, stopInFlight, sinceEnd,
              uncaught, storeVars, callVars>>
sideVars == <<mw, limiter, redis>>

\* ------------------------------------------------------------------ helpers
\* The process before app.listen calls back: NODE_ENV as env.ts parsed it,
\* the HTTP server, the Redis connection, and the calls made on the
\* scheduler and the connection, in order.
NodeEnvs == {"development", "production", "test"}
ProcIn(env) ==
    [env |-> env, server |-> "starting", signals |-> 0, closing |-> 0,
     quits |-> 0, code |-> Null, log |-> <<>>]
NoProc == ProcIn("production")

\* The ioredis client of redis.ts: its status, the quit commands awaiting
\* their reply, the closeRedisConnection() calls made, what the latest of
\* them that settled did, and the promise of the waitForRedis() call.
NoClose == [res |-> "none", trace |-> <<>>, wasEnd |-> FALSE]
NoWait ==
    [state |-> "none", reason |-> <<>>, ms |-> 0, armed |-> FALSE,
     timer |-> 0, onReady |-> FALSE, onError |-> FALSE]
RedisIn(status) ==
    [status |-> status, events |-> 0, event |-> <<>>, pending |-> 0,
     closes |-> 0, lastClose |-> NoClose, wait |-> NoWait]
NoRedis == RedisIn("ready")

\* The rate limiter's clients (req.ip) and, for each, the counter key in
\* Redis (hits, 0 when the key is absent, and ticks until it expires), the
\* ages of the client's hits of the last window, the answer to its latest
\* request, and whether it has kept to the maximum in every window so far.
Clients == {"ip1", "ip2"}
NoLimiter ==
    [k \in Clients |->
        [hits |-> 0, ttl |-> 0, recent |-> <<>>, last |-> "none",
         clean |-> TRUE]]


Min(a, b) == IF a < b THEN a ELSE b

\* setTimeout returns a handle distinct from every live handle.
FreshHandle ==
    CHOOSE h \in Handles :
        /\ h \notin DOMAIN timers
        /\ h # timeoutId
        /\ \A g \in Handles :
              (g \notin DOMAIN timers /\ g # timeoutId) => h <= g

FreshAct ==
    CHOOSE a \in ActIds :
        a \notin DOMAIN cycles /\ \A b \in ActIds \ DOMAIN cycles : a <= b

\* f with key k removed
Drop(f, k) == [x \in DOMAIN f \ {k} |-> f[x]]
\* f with key k bound to v
Put(f, k, v) == [x \in DOMAIN f \cup {k} |-> IF x = k THEN v ELSE f[x]]

Last(q) == q[Len(q)]

\* --------------------------------------------------------------- JSON text
\* The store holds texts.  <<"json", v>> is the JSON text of value v (v = Null
\* is the text `null`); <<"garbage", 0>> is a text that is not JSON.
NoKey == <<>>
Garbage == <<"garbage", 0>>
\* a value JSON.stringify throws on (a circular structure, a BigInt)
Circular == -2

\* JSON.stringify(v)
JSON_stringifyAsString(v) == [ok |-> TRUE, text |-> Garbage, msg |-> <<>>]
JSON_stringify(v) ==
    IF v = Circular
      THEN [ok |-> FALSE, text |-> NoKey,
            msg |-> <<"Converting circular structure to JSON">>]
      ELSE [ok |-> TRUE, text |-> <<"json", v>>, msg |-> <<>>]

\* JSON.parse(t): throws a SyntaxError on a text that is not JSON
JSON_parseFirst(t) ==
    IF t[1] = "json"
      THEN [ok |-> TRUE, val |-> IF t[2] = Null THEN Null ELSE 1, msg |-> <<>>]
      ELSE [ok |-> FALSE, val |-> Null, msg |-> <<"Unexpected token">>]
JSON_parse(t) ==
    IF t[1] = "json"
      THEN [ok |-> TRUE, val |-> t[2], msg |-> <<>>]
      ELSE [ok |-> FALSE, val |-> Null, msg |-> <<"Unexpected token">>]

\* ------------------------------------------------------------ I/O issued
\* redisClient.get(key), redisClient.setex(key, ttl, text),
\* redisClient.set(key, text) and axios.get(url), as they appear in the
\* trace of a call.
GetCmd(key) == <<"GET", key>>
SetexCmd(key, ttl, text) == <<"SETEX", key, ttl, text>>
SetCmd(key, text) == <<"SET", key, text>>
FetchCmd == <<"FETCH", ETHOS_API_URL>>

\* errors redisClient rejects with, and errors axios.get rejects with
ClientErrors == {<<"Redis connection failed">>}
\* An axios error carries response.status when the upstream answered, and
\* then its message is the one axios makes of the status.
FetchErrors ==
    {[axios |-> TRUE, status |-> "none", msg |-> <<"Network Error">>],
     [axios |-> TRUE, status |-> "500",
      msg |-> <<"Request failed with status code ", "500">>],
     [axios |-> FALSE, status |-> "none", msg |-> <<"unexpected">>]}

\* The store after the server has executed a write command.
StoreAfter(cmd) ==
    IF cmd[2] # REDIS_KEY THEN <<store, storeTtl>>
    ELSE IF cmd[1] = "SETEX" THEN <<cmd[4], cmd[3]>>
    ELSE <<cmd[3], NoTtl>>

\* ------------------------------------------------------------- repository
\* RedisRepository.set, lines 36-41: the command issued for a text.
RepoSetCommandPlain(key, text, ttl) == SetCmd(key, text)
RepoSetCommand(key, text, ttl) ==
    IF ttl # NoTtl THEN SetexCmd(key, ttl, text) ELSE SetCmd(key, text)

\* RedisRepository.set, lines 42-46
RepoSetError(key, msg) ==
    <<"Redis set operation failed for key ", key, ": ">> \o msg

\* RedisRepository.get, lines 16-25
RepoGetError(key, msg) ==
    <<"Redis get operation failed for key ", key, ": ">> \o msg
RepoParseErrorAsGetError(key, msg) == RepoGetError(key, msg)
RepoParseError(key, msg) ==
    <<"Failed to parse JSON for key ", key, ": ">> \o msg

\* ---------------------------------------------------------------- service
\* fetchStatsFromApi, lines 27-43: the error thrown for a rejection e of
\* axios.get.
FetchStatsErrorAlike(e) ==
    <<"Failed to fetch stats from Ethos API: ">> \o e.msg
FetchStatsError(e) ==
    IF e.axios
      THEN <<"Failed to fetch stats from Ethos API: ">> \o e.msg
      ELSE <<"Unexpected error fetching stats from Ethos API: ">> \o e.msg

\* getStats, lines 70-74
GetStatsErrorBare(msg) == <<"Failed to get Ethos stats">>
GetStatsError(msg) == <<"Failed to get Ethos stats: ">> \o msg

\* refreshCache, lines 91-95
RefreshErrorBare(msg) == <<"Failed to refresh Ethos stats cache">>
RefreshError(msg) == <<"Failed to refresh Ethos stats cache: ">> \o msg

\* getStats line 64 and refreshCache line 86: the write of fetched stats.
StatsSetCommandNoTtl(stats) ==
    RepoSetCommand(REDIS_KEY, JSON_stringify(stats).text, NoTtl)
StatsSetCommandNull(stats) ==
    RepoSetCommand(REDIS_KEY, JSON_stringify(Null).text, CACHE_TTL_SECONDS)
StatsSetCommand(stats) ==
    RepoSetCommand(REDIS_KEY, JSON_stringify(stats).text, CACHE_TTL_SECONDS)

NoRes == [ok |-> FALSE, val |-> Null, msg |-> <<>>]
Ok(v) == [ok |-> TRUE, val |-> v, msg |-> <<>>]
Err(m) == [ok |-> FALSE, val |-> Null, msg |-> m]

\* -------------------------------------------------------------- HTTP layer
\* An object is the sequence of its keys; req.id is set by the request-id
\* middleware.
RequestId == "req-1"
NewRequest(query, params, body) ==
    [query |-> query, params |-> params, body |-> body, id |-> RequestId]
NoReq == [query |-> <<>>, params |-> <<>>, body |-> <<>>, id |-> ""]

\* Values thrown or passed to next: a ZodError with its issues, another
\* Error, an object that is no Error, null, undefined.  NoArg is next().
ErrorValue(kind, msg, issues) == [kind |-> kind, msg |-> msg, issues |-> issues]
NoArg == ErrorValue("none", <<>>, <<>>)
Issue(code, path, keys, message) ==
    [code |-> code, path |-> path, keys |-> keys, message |-> message]

\* path.join('.')
Join(path) ==
    [k \in 1..(IF path = <<>> THEN 0 ELSE 2 * Len(path) - 1) |->
        IF k % 2 = 1 THEN path[(k + 1) \div 2] ELSE "."]

\* res.status(code).json(body); a field the body lacks is empty.
Json(status, error, details, message, stack, requestId, payload) ==
    [status |-> status, error |-> error, details |-> details,
     message |-> message, stack |-> stack, requestId |-> requestId,
     payload |-> payload]
StackOf(err) == <<"Error: ">> \o err.msg \o <<" at ">>

\* schema.parse(obj) for the schemas in use: z.object({}).strict() of the
\* stats route, z.object({ page: z.string() }) and a schema whose
\* refinement throws an Error that is no ZodError.
Parse(schema, obj) ==
    CASE schema = "strict" ->
           IF obj = <<>>
             THEN [ok |-> TRUE, val |-> obj, err |-> NoArg]
             ELSE [ok |-> FALSE, val |-> obj,
                   err |-> ErrorValue("ZodError", <<"Unrecognized key(s)">>,
                              <<Issue("unrecognized_keys", <<>>, obj,
                                      <<"Unrecognized key(s) in object">>)>>)]
      [] schema = "page" ->
           IF \E k \in 1..Len(obj) : obj[k] = "page"
             THEN [ok |-> TRUE, val |-> <<"page">>, err |-> NoArg]
             ELSE [ok |-> FALSE, val |-> obj,
                   err |-> ErrorValue("ZodError", <<"Required">>,
                              <<Issue("invalid_type", <<"page">>, <<>>,
                                      <<"Required">>)>>)]
      [] OTHER ->
           [ok |-> FALSE, val |-> obj,
            err |-> ErrorValue("Error", <<"Non-Zod error">>, <<>>)]

\* validate, lines 30-44: the details made of the issues of a ZodError
RECURSIVE ValidateDetails(_)
ValidateDetails(issues) ==
    IF issues = <<>> THEN <<>>
    ELSE LET e == Head(issues)
         IN  (IF e.code = "unrecognized_keys" /\ e.keys # <<>>
                THEN [k \in 1..Len(e.keys) |->
                         [path |-> <<e.keys[k]>>,
                          message |-> <<"Unrecognized key: ", e.keys[k]>>]]
                ELSE <<[path |-> Join(e.path), message |-> e.message]>>)
             \o ValidateDetails(Tail(issues))

\* validate(schema)(req, res, next), lines 10-57: the slots are parsed in
\* the order query, params, body; the first parse that throws ends the run.
Slots == <<"query", "params", "body">>
RECURSIVE ValidateFrom(_, _, _)
ValidateFrom(schema, st, k) ==
    IF k > Len(Slots) THEN [st EXCEPT !.nextCalls = Append(@, NoArg)]
    ELSE IF schema[Slots[k]] = "none" THEN ValidateFrom(schema, st, k + 1)
    ELSE LET slot == Slots[k]
             r == Parse(schema[slot], st.req[slot])
             seen == [st EXCEPT !.parsed = Append(@, slot)]
         IN  IF r.ok
               THEN ValidateFrom(schema, [seen EXCEPT !.req[slot] = r.val],
                                 k + 1)
             ELSE IF r.err.kind = "ZodError"
               THEN [seen EXCEPT !.sent = Append(@,
                        Json(400, "Validation failed",
                             ValidateDetails(r.err.issues), <<>>, <<>>,
                             st.req.id, Null))]
             ELSE [seen EXCEPT !.nextCalls = Append(@, r.err)]
ValidateSkipsNext(schema, req) ==
    [ValidateFrom(schema, [req |-> req, parsed |-> <<>>, nextCalls |-> <<>>,
                           sent |-> <<>>], 1)
        EXCEPT !.nextCalls = <<>>]
Validate(schema, req) ==
    ValidateFrom(schema, [req |-> req, parsed |-> <<>>, nextCalls |-> <<>>,
                          sent |-> <<>>], 1)

\* errorHandler(err, req, res, _next), lines 7-57: the responses it sends
ErrorHandlerVerbose(err, id, env) ==
    <<Json(500, "Internal Server Error", <<>>, err.msg, StackOf(err), id, Null)>>
ErrorHandler(err, id, env) ==
    IF err.kind = "ZodError"
      THEN <<Json(400, "Validation failed",
                  [k \in 1..Len(err.issues) |->
                      [path |-> Join(err.issues[k].path),
                       message |-> err.issues[k].message]],
                  <<>>, <<>>, id, Null)>>
    ELSE IF err.kind = "Error" /\ env = "development"
      THEN <<Json(500, "Internal Server Error", <<>>, err.msg, StackOf(err),
                  id, Null)>>
    ELSE <<Json(500, "Internal Server Error", <<>>, <<>>, <<>>, id, Null)>>

\* getEthosStats, lines 113-118, once getStats() has settled with res:
\* res.json(stats), or next(error) with the Error getStats() threw.
GetEthosStatsInline(res) ==
    IF res.ok
      THEN [sent |-> <<Json(200, "", <<>>, <<>>, <<>>, "", res.val)>>,
            nextCalls |-> <<>>]
      ELSE [sent |-> <<Json(500, "Internal Server Error", <<>>, res.msg,
                            <<>>, "", Null)>>,
            nextCalls |-> <<>>]
GetEthosStats(res) ==
    IF res.ok
      THEN [sent |-> <<Json(200, "", <<>>, <<>>, <<>>, "", res.val)>>,
            nextCalls |-> <<>>]
      ELSE [sent |-> <<>>,
            nextCalls |-> <<ErrorValue("Error", res.msg, <<>>)>>]

\* Express: an error passed to next reaches the error handler registered
\* with app.use(errorHandler).  The responses the request got in all.
Dispatch(out, id, env) ==
    out.sent \o (IF out.nextCalls # <<>> /\ out.nextCalls[1] # NoArg
                   THEN ErrorHandler(out.nextCalls[1], id, env)
                   ELSE <<>>)

\* The origin function of corsMiddleware, lines 62-84.  A string is the
\* sequence of its pieces: origins, "," and " "; a request without an
\* Origin header has origin "", CORS_ORIGIN that is not set is <<>>.
RECURSIVE Split(_)
Split(str) ==
    IF \A k \in 1..Len(str) : str[k] # ","
      THEN <<str>>
      ELSE LET k == CHOOSE i \in 1..Len(str) :
                       str[i] = "," /\ \A j \in 1..(i - 1) : str[j] # ","
           IN  <<SubSeq(str, 1, k - 1)>> \o Split(SubSeq(str, k + 1, Len(str)))
RECURSIVE Trim(_)
Trim(str) ==
    IF str = <<>> THEN str
    ELSE IF Head(str) = " " THEN Trim(Tail(str))
    ELSE IF str[Len(str)] = " " THEN Trim(SubSeq(str, 1, Len(str) - 1))
    ELSE str
AllowedOrigins(corsOrigin) ==
    [k \in 1..Len(Split(corsOrigin)) |-> Trim(Split(corsOrigin)[k])]
CorsAllow == [err |-> NoArg, allow |-> TRUE]
CorsDeny ==
    [err |-> ErrorValue("Error", <<"Not allowed by CORS">>, <<>>),
     allow |-> FALSE]
\* the calls of callback it makes
CorsOriginDevelopmentFirst(origin, corsOrigin, nodeEnv) ==
    IF origin = "" \/ nodeEnv = "development" THEN <<CorsAllow>>
    ELSE IF corsOrigin # <<>>
              /\ \E k \in 1..Len(AllowedOrigins(corsOrigin)) :
                    AllowedOrigins(corsOrigin)[k] = <<origin>>
      THEN <<CorsAllow>>
    ELSE <<CorsDeny>>
CorsOrigin(origin, corsOrigin, nodeEnv) ==
    IF origin = "" THEN <<CorsAllow>>
    ELSE IF corsOrigin # <<>>
      THEN IF \E k \in 1..Len(AllowedOrigins(corsOrigin)) :
                 AllowedOrigins(corsOrigin)[k] = <<origin>>
             THEN <<CorsAllow>>
             ELSE <<CorsDeny>>
    ELSE IF nodeEnv = "development" THEN <<CorsAllow>>
    ELSE <<CorsDeny>>
NoCors == [origin |-> "", config |-> <<>>, callbacks |-> <<>>]

\* A middleware called on its own: validate(schema)(req, res, next) or
\* errorHandler(err, req, res, next), and what it has done once it returned.
NoOut == [req |-> NoReq, parsed |-> <<>>, nextCalls |-> <<>>, sent |-> <<>>]
MwCall(fn, schema, req, err) ==
    [fn |-> fn, schema |-> schema, req |-> req, err |-> err,
     done |-> FALSE, out |-> NoOut, cors |-> NoCors]
NoSchema == [query |-> "none", params |-> "none", body |-> "none"]
NoMw == MwCall("none", NoSchema, NoReq, NoArg)

\* statsSchema of the stats route
StatsSchemaNoQuery == [query |-> "none", params |-> "strict", body |-> "none"]
StatsSchema == [query |-> "strict", params |-> "strict", body |-> "none"]

\* A call that has just issued its first command (or none).
NewCall(op, key, trace) ==
    [op |-> op, pc |-> IF trace = <<>> THEN "done" ELSE Head(trace)[1],
     key |-> key, ttl |-> NoTtl, data |-> Null, hit |-> FALSE,
     newer |-> {}, stale |-> FALSE, trace |-> trace,
     req |-> NoReq, resp |-> <<>>,
     cause |-> <<>>, res |-> NoRes]

\* The call settles: its promise resolves or rejects with res.  The
\* getStats() call of a request resumes getEthosStats, which responds.
Settle(c, res, cause) ==
    [c EXCEPT !.pc = "done", !.res = res, !.cause = cause,
              !.resp = IF c.op = "GET /stats"
                         THEN Dispatch(GetEthosStats(res), c.req.id, proc.env)
                         ELSE @]

\* no call has settled yet
NoCall == NewCall("none", REDIS_KEY, <<>>)

NoRefresh == [ok |-> TRUE, msg |-> <<>>, cause |-> <<>>, trace |-> <<>>]

\* ---------------------------------------------------------------- scheduler
\* start(), line 12: the guard that makes a start() a no-op.
AlreadyRunning == timeoutId # Null

\* run(), line 27: the guard at the top of run().
RunReturnsEarly == isStopping

\* run(), line 38: the guard of the finally block.
ScheduleNextAlways(outcome) == TRUE
ScheduleNextOnSuccess(outcome) == ~isStopping /\ outcome = "ok"
ScheduleNext(outcome) == ~isStopping

\* run(), lines 29-41: a rejection of refreshCache is caught and logged, so
\* the promise of run() resolves whatever refreshCache did.
RunOutcomeRethrow(refreshOutcome) ==
    IF refreshOutcome = "fail" THEN "rejected" ELSE "resolved"
RunOutcome(refreshOutcome) == "resolved"

\* start(), line 23: `await this.run()` keeps start() pending while the run
\* it began is in flight.
StartStateDetached(began) == "resolved"
StartState(began) == IF began THEN "pending" ELSE "resolved"

\* The state of a scheduler that was constructed and never used (lines 8-9).
Idle ==
    /\ timeoutId = Null
    /\ ~isStopping
    /\ DOMAIN cycles = {}
    /\ DOMAIN timers = {}

Init ==
    /\ timeoutId = Null
    /\ isStopping = FALSE
    /\ timers = <<>>
    /\ cycles = <<>>
    /\ startCalls = <<>>
    /\ store = NoKey
    /\ storeTtl = 0
    /\ calls = <<>>
    /\ lastCall = NoCall
    /\ lastRefresh = NoRefresh
    /\ refreshCalls = 0
    /\ lastOutcome = "none"
    /\ prevOutcome = "none"
    /\ stopInFlight = FALSE
    /\ sinceEnd = -1
    /\ uncaught = FALSE
    /\ proc = NoProc
    /\ mw = NoMw
    /\ limiter = NoLimiter
    /\ redis = NoRedis

\* Order of the upstream requests.  calls[i].newer holds the cycles in
\* flight whose upstream GET was issued after the one of call i;
\* calls[i].stale is set once such a cycle has written the key.
Overtaken(a) ==
    [i \in DOMAIN calls |->
        IF calls[i].pc \in {"FETCH", "SETEX"}
          THEN [calls[i] EXCEPT !.newer = @ \cup {a}]
          ELSE calls[i]]
Landed(a, refreshOutcome) ==
    [i \in DOMAIN calls |->
        [calls[i] EXCEPT
            !.newer = @ \ {a},
            !.stale = @ \/ (refreshOutcome = "ok" /\ a \in calls[i].newer)]]

BeginCycleReadFirst(by) ==
    /\ cycles' = Put(cycles, FreshAct,
                     [by |-> by, pc |-> "fetch", data |-> Null,
                      trace |-> <<GetCmd(REDIS_KEY), FetchCmd>>])
    /\ calls' = Overtaken(FreshAct)
    /\ refreshCalls' = refreshCalls + 1
    /\ lastOutcome' = "none"
    /\ prevOutcome' = lastOutcome
    /\ lastRefresh' = NoRefresh

\* run() up to its first suspension: refreshCache() is called and the
\* upstream GET is issued.  `by` is the start() call awaiting this run, or 0
\* for a timer callback.
BeginCycle(by) ==
    /\ cycles' = Put(cycles, FreshAct,
                     [by |-> by, pc |-> "fetch", data |-> Null,
                      trace |-> <<FetchCmd>>])
    /\ calls' = Overtaken(FreshAct)
    /\ refreshCalls' = refreshCalls + 1
    /\ lastOutcome' = "none"
    /\ prevOutcome' = lastOutcome
    /\ lastRefresh' = NoRefresh

\* public async start()
StartCall ==
    /\ Len(startCalls) < MaxStarts
    /\ LET n == Len(startCalls) + 1
           began == ~AlreadyRunning /\ ~RunReturnsEarly
           call == [idle |-> Idle,
                    stopped |-> isStopping /\ ~stopInFlight,
                    inflight |-> Cardinality(DOMAIN cycles),
                    calls |-> refreshCalls,
                    pending |-> timeoutId \in DOMAIN timers,
                    warned |-> AlreadyRunning, began |-> began,
                    state |-> StartState(began)]
       IN  /\ startCalls' = Append(startCalls, call)
           /\ IF began
                THEN refreshCalls < MaxCalls /\ BeginCycle(n)
                ELSE UNCHANGED <<cycleVars, calls>>
    /\ UNCHANGED <<schedVars, storeVars, lastCall, stopInFlight,
                   sinceEnd, uncaught>>

\* start() called by the environment
Start == StartCall /\ UNCHANGED edgeVars

\* The end of run(): catch (lines 33-34), finally (lines 35-41) and the
\* settling of the promise of run(), which start() awaits (line 23) and the
\* timer callback drops (line 39).
EndCycle(a, refreshOutcome) ==
    /\ cycles' = Drop(cycles, a)
    /\ calls' = Landed(a, refreshOutcome)
    /\ lastOutcome' = refreshOutcome
    /\ sinceEnd' = 0
    /\ IF ScheduleNext(refreshOutcome)
         THEN /\ timers' = Put(timers, FreshHandle, SCHEDULE_INTERVAL_MS)
              /\ timeoutId' = FreshHandle
         ELSE UNCHANGED <<timers, timeoutId>>
    /\ IF cycles[a].by # 0
         THEN /\ startCalls' = [startCalls EXCEPT
                      ![cycles[a].by].state = RunOutcome(refreshOutcome)]
              /\ UNCHANGED uncaught
         ELSE /\ uncaught' = (uncaught \/ RunOutcome(refreshOutcome) = "rejected")
              /\ UNCHANGED startCalls
    /\ UNCHANGED <<isStopping, refreshCalls, prevOutcome, stopInFlight,
                   lastCall, edgeVars>>

\* refreshCache(), line 85: the upstream GET resolves with payload p; the
\* payload is serialized and the store write is issued (line 86).
FetchResolve(a, p) ==
    /\ a \in DOMAIN cycles
    /\ cycles[a].pc = "fetch"
    /\ cycles' = [cycles EXCEPT ![a].pc = "set", ![a].data = p,
                     ![a].trace = Append(@, StatsSetCommand(p))]
    /\ UNCHANGED <<schedVars, startCalls, storeVars, callVars, refreshCalls,
                   histVars, lastRefresh, stopInFlight, sinceEnd, uncaught,
                   edgeVars>>

FetchFailRetry(a) ==
    /\ a \in DOMAIN cycles
    /\ cycles[a].pc = "fetch"
    /\ \E e \in FetchErrors :
          lastRefresh' = [ok |-> FALSE, cause |-> e.msg,
                          msg |-> RefreshError(FetchStatsError(e)),
                          trace |-> Append(cycles[a].trace, FetchCmd)]
    /\ EndCycle(a, "fail")
    /\ UNCHANGED storeVars

\* refreshCache(), lines 85, 91-95: the upstream GET fails; refreshCache
\* rejects without touching the store.
FetchFail(a) ==
    /\ a \in DOMAIN cycles
    /\ cycles[a].pc = "fetch"
    /\ \E e \in FetchErrors :
          lastRefresh' = [ok |-> FALSE, cause |-> e.msg,
                          msg |-> RefreshError(FetchStatsError(e)),
                          trace |-> cycles[a].trace]
    /\ EndCycle(a, "fail")
    /\ UNCHANGED storeVars

\* refreshCache(), lines 86-90: the store write succeeds.
SetResolve(a) ==
    /\ a \in DOMAIN cycles
    /\ cycles[a].pc = "set"
    /\ store' = StoreAfter(Last(cycles[a].trace))[1]
    /\ storeTtl' = StoreAfter(Last(cycles[a].trace))[2]
    /\ lastRefresh' = [ok |-> TRUE, cause |-> <<>>, msg |-> <<>>,
                       trace |-> cycles[a].trace]
    /\ EndCycle(a, "ok")

\* refreshCache(), lines 86, 91-95: the store write fails.
SetFail(a) ==
    /\ a \in DOMAIN cycles
    /\ cycles[a].pc = "set"
    /\ \E m \in ClientErrors :
          lastRefresh' = [ok |-> FALSE, cause |-> m,
                          msg |-> RefreshError(RepoSetError(REDIS_KEY, m)),
                          trace |-> cycles[a].trace]
    /\ EndCycle(a, "fail")
    /\ UNCHANGED storeVars

\* The callback of line 39, `() => this.run()`, called by the event loop
\* when timer h is due.
TimerFire(h) ==
    /\ h \in DOMAIN timers
    /\ timers[h] = 0
    /\ timers' = Drop(timers, h)
    /\ IF RunReturnsEarly
         THEN UNCHANGED <<cycleVars, calls>>
         ELSE refreshCalls < MaxCalls /\ BeginCycle(0)
    /\ UNCHANGED <<timeoutId, isStopping, startCalls, storeVars, lastCall,
                   stopInFlight, sinceEnd, uncaught, edgeVars>>

\* public stop()
StopCall ==
    /\ isStopping' = TRUE
    /\ IF timeoutId # Null
         THEN /\ timers' = Drop(timers, timeoutId)
              /\ timeoutId' = Null
         ELSE UNCHANGED <<timers, timeoutId>>
    /\ stopInFlight' = (DOMAIN cycles # {})
    /\ UNCHANGED <<cycleVars, startCalls, storeVars, callVars, sinceEnd,
                   uncaught>>

\* stop() called by the environment
Stop == StopCall /\ UNCHANGED edgeVars

\* One tick of time passes: pending timers and the expiry of the key come
\* one tick closer.  A due timer runs before time moves on.
Tick ==
    /\ \A h \in DOMAIN timers : timers[h] > 0
    /\ timers' = [h \in DOMAIN timers |-> timers[h] - 1]
    /\ storeTtl' = IF storeTtl > 0 THEN storeTtl - 1 ELSE storeTtl
    /\ store' = IF storeTtl = 1 THEN NoKey ELSE store
    /\ sinceEnd' = IF sinceEnd < 0 THEN sinceEnd
                   ELSE Min(sinceEnd + 1, SCHEDULE_INTERVAL_MS + 1)
    /\ UNCHANGED <<timeoutId, isStopping, cycleVars, startCalls, callVars,
                   stopInFlight, uncaught, edgeVars>>

Next ==
    \/ Start
    \/ Stop
    \/ \E h \in Handles : TimerFire(h)
    \/ \E a \in ActIds, p \in Payloads : FetchResolve(a, p)
    \/ \E a \in ActIds : FetchFail(a)
    \/ \E a \in ActIds : SetResolve(a)
    \/ \E a \in ActIds : SetFail(a)
    \/ Tick

Spec == Init /\ [][Next]_vars

\* ------------------------------------------------- getStats and repository
\* getStats(), line 54: the test for a cache hit.
IsHitNever(cached) == FALSE
IsHit(cached) == cached # Null

\* RedisRepository.get, lines 12-15: the value made of the reply of
\* redisClient.get; a missing key is replied as null.
RepoGetValue(key, reply) ==
    IF reply = NoKey THEN Ok(Null)
    ELSE IF JSON_parse(reply).ok THEN Ok(JSON_parse(reply).val)
    ELSE Err(RepoParseError(key, JSON_parse(reply).msg))

\* RedisRepository.set, lines 35-41, up to the command it issues: the trace
\* of a set(key, value, ttl) call, empty when JSON.stringify throws.
RepoSetTrace(key, value, ttl) ==
    IF JSON_stringify(value).ok
      THEN <<RepoSetCommand(key, JSON_stringify(value).text, ttl)>>
      ELSE <<>>

\* getStats(), lines 53-66, after repository.get returned r: a hit returns
\* the cached value, a miss issues the upstream GET, an error is wrapped.
AfterGet(c, r, cause) ==
    IF c.op = "get" THEN Settle(c, r, cause)
    ELSE IF ~r.ok THEN Settle(c, Err(GetStatsError(r.msg)), cause)
    ELSE IF IsHit(r.val) THEN [Settle(c, Ok(r.val), cause) EXCEPT !.hit = TRUE]
    ELSE [c EXCEPT !.pc = "FETCH", !.trace = Append(@, FetchCmd)]

\* getStats(), lines 67-73 and RedisRepository.set, lines 42-46, after the
\* write command was answered.
AfterSet(c, r, cause) ==
    IF c.op = "set" THEN Settle(c, r, cause)
    ELSE IF ~r.ok THEN Settle(c, Err(GetStatsError(r.msg)), cause)
    ELSE Settle(c, Ok(c.data), cause)

readFrame == <<schedVars, cycleVars, startCalls, stopInFlight, sinceEnd,
               uncaught, edgeVars>>

ReadIds == 1..MaxReads
FreshCall ==
    CHOOSE i \in ReadIds :
        i \notin DOMAIN calls /\ \A j \in ReadIds \ DOMAIN calls : i <= j

\* A call begins in state c; one that has already settled goes to lastCall.
Begin(c) ==
    /\ DOMAIN calls # ReadIds
    /\ IF c.pc = "done"
         THEN lastCall' = c /\ UNCHANGED calls
         ELSE calls' = Put(calls, FreshCall, c) /\ UNCHANGED lastCall

\* Call i moves to state c.
Move(i, c) ==
    IF c.pc = "done"
      THEN lastCall' = c /\ calls' = Drop(calls, i)
      ELSE calls' = [calls EXCEPT ![i] = c] /\ UNCHANGED lastCall

\* getStats() is called: line 53, redisRepository.get(REDIS_KEY), which
\* issues redisClient.get (RedisRepository.get, line 11).
GetStatsCall ==
    /\ Begin(NewCall("getStats", REDIS_KEY, <<GetCmd(REDIS_KEY)>>))
    /\ UNCHANGED <<readFrame, storeVars>>

\* redisRepository.get(REDIS_KEY) is called directly.
RepoGetCall ==
    /\ Begin(NewCall("get", REDIS_KEY, <<GetCmd(REDIS_KEY)>>))
    /\ UNCHANGED <<readFrame, storeVars>>

\* redisRepository.set(REDIS_KEY, value, ttl) is called directly; when
\* JSON.stringify throws, the call rejects without a command (lines 42-46).
RepoSetCall(value, ttl) ==
    /\ LET c == [NewCall("set", REDIS_KEY,
                         RepoSetTrace(REDIS_KEY, value, ttl))
                    EXCEPT !.data = value, !.ttl = ttl]
       IN  Begin(IF c.trace = <<>>
                   THEN Settle(c, Err(RepoSetError(REDIS_KEY,
                                                   JSON_stringify(value).msg)),
                               JSON_stringify(value).msg)
                   ELSE c)
    /\ UNCHANGED <<readFrame, storeVars>>

\* redisClient.get resolves with the text under the key.
ClientGetReply(i) ==
    /\ i \in DOMAIN calls
    /\ calls[i].pc = "GET"
    /\ Move(i, AfterGet(calls[i], RepoGetValue(calls[i].key, store), <<>>))
    /\ UNCHANGED <<readFrame, storeVars>>

\* redisClient.get rejects (RedisRepository.get, lines 22-24).
ClientGetFail(i) ==
    /\ i \in DOMAIN calls
    /\ calls[i].pc = "GET"
    /\ \E m \in ClientErrors :
          Move(i, AfterGet(calls[i], Err(RepoGetError(calls[i].key, m)), m))
    /\ UNCHANGED <<readFrame, storeVars>>

\* getStats(), lines 63-64: the upstream GET resolves with payload p, and
\* redisRepository.set(REDIS_KEY, stats, CACHE_TTL_SECONDS) issues its
\* command.
ReadFetchResolve(i, p) ==
    /\ i \in DOMAIN calls
    /\ calls[i].pc = "FETCH"
    /\ Move(i, [calls[i] EXCEPT !.data = p,
                                !.pc = StatsSetCommand(p)[1],
                                !.trace = Append(@, StatsSetCommand(p))])
    /\ UNCHANGED <<readFrame, storeVars>>

\* getStats(), lines 63, 70-74: the upstream GET fails.
ReadFetchFail(i) ==
    /\ i \in DOMAIN calls
    /\ calls[i].pc = "FETCH"
    /\ \E e \in FetchErrors :
          Move(i, Settle(calls[i], Err(GetStatsError(FetchStatsError(e))),
                         e.msg))
    /\ UNCHANGED <<readFrame, storeVars>>

\* redisClient.setex / redisClient.set resolves: the server has executed
\* the command.
ClientSetReply(i) ==
    /\ i \in DOMAIN calls
    /\ calls[i].pc \in {"SETEX", "SET"}
    /\ store' = StoreAfter(Last(calls[i].trace))[1]
    /\ storeTtl' = StoreAfter(Last(calls[i].trace))[2]
    /\ Move(i, AfterSet(calls[i], Ok(Null), <<>>))
    /\ UNCHANGED readFrame

\* redisClient.setex / redisClient.set rejects (RedisRepository.set, lines
\* 42-46); the command was not executed.
ClientSetFail(i) ==
    /\ i \in DOMAIN calls
    /\ calls[i].pc \in {"SETEX", "SET"}
    /\ \E m \in ClientErrors :
          Move(i, AfterSet(calls[i], Err(RepoSetError(calls[i].key, m)), m))
    /\ UNCHANGED <<readFrame, storeVars>>

\* The server starts the scheduler once, when it begins to listen.
ServerStart ==
    /\ startCalls = <<>>
    /\ proc.server = "starting"
    /\ StartCall
    /\ proc' = [proc EXCEPT !.server = "listening", !.log = Append(@, "start")]
    /\ UNCHANGED sideVars

\* The stats service: the scheduler's first cycle, begun by the start() of
\* server startup, runs next to getStats() calls of the HTTP layer.  The key
\* may be warm from an earlier run of the process.
ServiceInit ==
    /\ timeoutId = Null
    /\ isStopping = FALSE
    /\ timers = <<>>
    /\ cycles = <<>>
    /\ startCalls = <<>>
    /\ \/ store = NoKey /\ storeTtl = 0
       \/ \E p \in Payloads, t \in 1..CACHE_TTL_SECONDS :
             store = <<"json", p>> /\ storeTtl = t
    /\ calls = <<>>
    /\ lastCall = NoCall
    /\ lastRefresh = NoRefresh
    /\ refreshCalls = 0
    /\ lastOutcome = "none"
    /\ prevOutcome = "none"
    /\ stopInFlight = FALSE
    /\ sinceEnd = -1
    /\ uncaught = FALSE
    /\ proc = NoProc
    /\ mw = NoMw
    /\ limiter = NoLimiter
    /\ redis = NoRedis

ServiceNext ==
    \/ ServerStart
    \/ \E a \in ActIds, p \in Payloads : FetchResolve(a, p)
    \/ \E a \in ActIds : FetchFail(a)
    \/ \E a \in ActIds : SetResolve(a)
    \/ \E a \in ActIds : SetFail(a)
    \/ Tick
    \/ GetStatsCall
    \/ \E i \in ReadIds : ClientGetReply(i)
    \/ \E i \in ReadIds : ClientGetFail(i)
    \/ \E i \in ReadIds, p \in Payloads : ReadFetchResolve(i, p)
    \/ \E i \in ReadIds : ReadFetchFail(i)
    \/ \E i \in ReadIds : ClientSetReply(i)
    \/ \E i \in ReadIds : ClientSetFail(i)

ServiceSpec == ServiceInit /\ [][ServiceNext]_vars

\* The service over several refresh cycles: the timer callbacks of the
\* scheduler run next to getStats() calls, made one at a time by requests
\* the listening server takes.
GetStatsAlone == calls = <<>> /\ startCalls # <<>> /\ GetStatsCall

RefreshNext ==
    \/ ServerStart
    \/ \E h \in Handles : TimerFire(h)
    \/ \E a \in ActIds, p \in Payloads : FetchResolve(a, p)
    \/ \E a \in ActIds : FetchFail(a)
    \/ \E a \in ActIds : SetResolve(a)
    \/ \E a \in ActIds : SetFail(a)
    \/ Tick
    \/ GetStatsAlone
    \/ \E i \in ReadIds : ClientGetReply(i)
    \/ \E i \in ReadIds : ClientGetFail(i)
    \/ \E i \in ReadIds, p \in Payloads : ReadFetchResolve(i, p)
    \/ \E i \in ReadIds : ReadFetchFail(i)
    \/ \E i \in ReadIds : ClientSetReply(i)
    \/ \E i \in ReadIds : ClientSetFail(i)

RefreshSpec == ServiceInit /\ [][RefreshNext]_vars

\* The stats route: GET /stats with query keys q runs validate(statsSchema)
\* and, when it calls next(), getEthosStats, which calls getStats().  The
\* route has no path parameters and a GET carries no body.
Queries == {<<>>, <<"unknown">>, <<"page", "unknown">>}
HttpRequest(q) ==
    /\ proc.server = "listening"
    /\ calls = <<>>
    /\ LET req == NewRequest(q, <<>>, <<>>)
           v == Validate(StatsSchema, req)
           passed == v.nextCalls = <<NoArg>> /\ v.sent = <<>>
           c == [NewCall("GET /stats", REDIS_KEY,
                         IF passed THEN <<GetCmd(REDIS_KEY)>> ELSE <<>>)
                    EXCEPT !.req = req]
       IN  Begin(IF passed THEN c
                 ELSE [c EXCEPT !.resp = Dispatch(v, req.id, proc.env)])
    /\ UNCHANGED <<readFrame, storeVars>>

\* ---------------------------------------------------------------- lifecycle
\* signals delivered to one process
MaxSignals == 2
Alive == proc.server # "exited"

\* SIGTERM or SIGINT, lines 14-17 and 31-32: shutdown() calls
\* server.close(callback).  The callback of a server that is already
\* closing is called as well.
Signal ==
    /\ proc.server \in {"listening", "closing"}
    /\ proc.signals < MaxSignals
    /\ proc' = [proc EXCEPT !.server = "closing", !.signals = @ + 1,
                            !.closing = @ + 1]
    /\ UNCHANGED <<schedVars, cycleVars, startCalls, stopInFlight, sinceEnd,
                   uncaught, storeVars, callVars, sideVars>>

\* closeRedisConnection(), redis.ts lines 59-63: nothing when the
\* connection has ended, redisClient.quit() otherwise.
CloseRedisCall ==
    redis' = IF redis.status = "end"
               THEN [redis EXCEPT !.closes = @ + 1,
                                  !.lastClose = [res |-> "resolved",
                                                 trace |-> <<>>,
                                                 wasEnd |-> TRUE]]
               ELSE [redis EXCEPT !.closes = @ + 1, !.pending = @ + 1]

\* The earlier closeRedisConnection, redis.ts lines 95-97: a quit that
\* fails rejects the call.
QuitRejectedRethrow ==
    /\ redis.pending > 0
    /\ redis' = [redis EXCEPT !.pending = @ - 1,
                              !.lastClose = [res |-> "rejected",
                                             trace |-> <<"quit">>,
                                             wasEnd |-> FALSE]]

\* redisClient.quit() resolves, line 63: the connection ends and the call
\* resolves.
QuitResolved ==
    /\ redis.pending > 0
    /\ redis' = [redis EXCEPT !.pending = @ - 1, !.status = "end",
                              !.lastClose = [res |-> "resolved",
                                             trace |-> <<"quit">>,
                                             wasEnd |-> FALSE]]

\* redisClient.quit() rejects, lines 64-67: the failure is logged,
\* redisClient.disconnect() ends the connection and the call resolves.
QuitRejected ==
    /\ redis.pending > 0
    /\ redis' = [redis EXCEPT !.pending = @ - 1, !.status = "end",
                              !.lastClose =
                                  [res |-> "resolved",
                                   trace |-> <<"quit", "log", "disconnect">>,
                                   wasEnd |-> FALSE]]

\* The earlier server.ts, lines 49-53: the callback without the scheduler.
CloseCallbackNoStop ==
    /\ Alive
    /\ proc.closing > 0
    /\ CloseRedisCall
    /\ proc' = [proc EXCEPT !.closing = @ - 1, !.quits = @ + 1,
                            !.log = Append(@, "quit")]
    /\ UNCHANGED <<schedVars, cycleVars, startCalls, stopInFlight, sinceEnd,
                   uncaught, storeVars, callVars, mw, limiter>>

\* The callback of server.close, lines 17-21: ethosStatsScheduler.stop()
\* returns, then closeRedisConnection() is called and awaited.
CloseCallback ==
    /\ Alive
    /\ proc.closing > 0
    /\ StopCall
    /\ CloseRedisCall
    /\ proc' = [proc EXCEPT !.closing = @ - 1, !.quits = @ + 1,
                            !.log = @ \o <<"stop", "quit">>]
    /\ UNCHANGED <<mw, limiter>>

\* redisClient.quit() resolves, so closeRedisConnection() does, lines
\* 21-23: process.exit(0)
QuitReply ==
    /\ Alive
    /\ proc.quits > 0
    /\ QuitResolved
    /\ proc' = [proc EXCEPT !.server = "exited", !.code = 0]
    /\ UNCHANGED <<schedVars, cycleVars, startCalls, stopInFlight, sinceEnd,
                   uncaught, storeVars, callVars, mw, limiter>>

\* redisClient.quit() rejects: closeRedisConnection() disconnects and
\* resolves all the same, lines 21-23: process.exit(0)
QuitFail ==
    /\ Alive
    /\ proc.quits > 0
    /\ QuitRejected
    /\ proc' = [proc EXCEPT !.server = "exited", !.code = 0,
                            !.log = Append(@, "disconnect")]
    /\ UNCHANGED <<schedVars, cycleVars, startCalls, stopInFlight, sinceEnd,
                   uncaught, storeVars, callVars, mw, limiter>>

\* The scheduler's steps of a process that has not exited.
LiveTimerFire(h) == Alive /\ TimerFire(h)
LiveFetchResolve(a, p) == Alive /\ FetchResolve(a, p)
LiveFetchFail(a) == Alive /\ FetchFail(a)
LiveSetResolve(a) == Alive /\ SetResolve(a)
LiveSetFail(a) == Alive /\ SetFail(a)
LiveTick == Alive /\ Tick

LifeNext ==
    \/ ServerStart
    \/ Signal
    \/ CloseCallback
    \/ QuitReply
    \/ QuitFail
    \/ \E h \in Handles : LiveTimerFire(h)
    \/ \E a \in ActIds, p \in Payloads : LiveFetchResolve(a, p)
    \/ \E a \in ActIds : LiveFetchFail(a)
    \/ \E a \in ActIds : LiveSetResolve(a)
    \/ \E a \in ActIds : LiveSetFail(a)
    \/ LiveTick

LifeSpec == Init /\ [][LifeNext]_vars

\* ------------------------------------------------------------- rate limiter
\* RedisStore.increment(key), lines 102-130: MULTI of INCR key and
\* EXPIRE key ttlSeconds, on the counter c of the key.  totalHits is the
\* reply of INCR.
TtlSeconds == RATE_LIMIT_WINDOW_MS
Increment(c) == [hits |-> c.hits + 1, ttl |-> TtlSeconds]

\* expressRateLimit with max: a request is refused once the store's
\* totalHits exceeds max; the handler of lines 153-166 answers 429.
RateLimited(totalHits) == totalHits > RATE_LIMIT_MAX_REQUESTS

\* the ages of a client's recent hits one tick on, those of a window ago
\* dropped
Aged(recent) ==
    SelectSeq([k \in 1..Len(recent) |-> recent[k] + 1],
              LAMBDA a : a < RATE_LIMIT_WINDOW_MS)

\* A request of client k passes the rate limiter.
RateHit(k) ==
    /\ limiter[k].hits < MaxHits
    /\ LET c == Increment(limiter[k])
           recent == Append(limiter[k].recent, 0)
       IN  limiter' = [limiter EXCEPT ![k] =
                          [hits |-> c.hits, ttl |-> c.ttl, recent |-> recent,
                           last |-> IF RateLimited(c.hits) THEN "429"
                                    ELSE "pass",
                           clean |-> limiter[k].clean
                                       /\ Len(recent) <= RATE_LIMIT_MAX_REQUESTS]]
    /\ UNCHANGED <<coreVars, proc, mw, redis>>

\* The transaction of a request of client k fails, lines 107-118:
\* increment throws and the counter is as it was.
RateHitFail(k) ==
    /\ Len(limiter[k].recent) < MaxHits
    /\ LET recent == Append(limiter[k].recent, 0)
       IN  limiter' = [limiter EXCEPT ![k].recent = recent,
                                      ![k].last = "error",
                                      ![k].clean =
                                          @ /\ Len(recent) <= RATE_LIMIT_MAX_REQUESTS]
    /\ UNCHANGED <<coreVars, proc, mw, redis>>

\* One tick passes: each counter key comes one tick closer to its expiry
\* and is deleted when it expires.
RateTick ==
    /\ limiter' = [k \in Clients |->
                      [limiter[k] EXCEPT
                          !.ttl = IF @ > 0 THEN @ - 1 ELSE @,
                          !.hits = IF limiter[k].ttl = 1 THEN 0 ELSE @,
                          !.recent = Aged(@)]]
    /\ UNCHANGED <<coreVars, proc, mw, redis>>

RateNext ==
    \/ \E k \in Clients : RateHit(k)
    \/ \E k \in Clients : RateHitFail(k)
    \/ RateTick

RateSpec == Init /\ [][RateNext]_vars

\* ------------------------------------------------------------ redis client
\* Errors the client emits: one of authentication and one of the network.
AuthError == <<"ERR ", "AUTH", " failed">>
RedisErrors == {AuthError, <<"connect ", "ECONNREFUSED">>}
\* err.message.includes('AUTH')
IncludesAuth(msg) == \E k \in 1..Len(msg) : msg[k] = "AUTH"
TimeoutError(ms) == <<"Redis connection timeout: ", ToString(ms), "ms">>

\* resolve() and reject(err) of the promise of waitForRedis: a promise that
\* has settled stays as it is.
Resolved(w) ==
    IF w.state = "pending" THEN [w EXCEPT !.state = "resolved"] ELSE w
Rejected(w, err) ==
    IF w.state = "pending"
      THEN [w EXCEPT !.state = "rejected", !.reason = err]
      ELSE w

\* The listener of lines 50-55, registered with once: it is removed by the
\* first 'error' event, whatever the error.
OnError(w, err) ==
    IF ~w.onError THEN w
    ELSE IF IncludesAuth(err)
      THEN Rejected([w EXCEPT !.onError = FALSE, !.armed = FALSE], err)
      ELSE [w EXCEPT !.onError = FALSE]
\* The listener of lines 45-48, registered with once.
OnReady(w) ==
    IF w.onReady
      THEN Resolved([w EXCEPT !.onReady = FALSE, !.armed = FALSE])
      ELSE w

\* waitForRedis(timeoutMs), lines 37-56
WaitForRedis(ms) ==
    /\ redis.wait.state = "none"
    /\ redis' = [redis EXCEPT !.wait =
                    IF redis.status = "ready"
                      THEN [NoWait EXCEPT !.state = "resolved", !.ms = ms]
                      ELSE [NoWait EXCEPT !.state = "pending", !.ms = ms,
                                          !.armed = TRUE, !.timer = ms,
                                          !.onReady = TRUE, !.onError = TRUE]]
    /\ UNCHANGED <<coreVars, proc, mw, limiter>>

\* The client becomes ready and emits 'ready'.
RedisReady ==
    /\ redis.status = "connecting"
    /\ redis.events < MaxEvents
    /\ redis' = [redis EXCEPT !.status = "ready", !.events = @ + 1,
                              !.event = <<"ready">>, !.wait = OnReady(@)]
    /\ UNCHANGED <<coreVars, proc, mw, limiter>>

\* The client emits 'error' and, its connection lost, connects again
\* (retryStrategy, lines 6-8).
RedisError(err) ==
    /\ redis.status \in {"connecting", "ready"}
    /\ redis.events < MaxEvents
    /\ redis' = [redis EXCEPT !.status = "connecting", !.events = @ + 1,
                              !.event = err, !.wait = OnError(@, err)]
    /\ UNCHANGED <<coreVars, proc, mw, limiter>>

\* The timer of lines 41-43 is due.
WaitTimerFire ==
    /\ redis.wait.armed
    /\ redis.wait.timer = 0
    /\ redis' = [redis EXCEPT !.wait =
                    Rejected([@ EXCEPT !.armed = FALSE], TimeoutError(@.ms))]
    /\ UNCHANGED <<coreVars, proc, mw, limiter>>

\* One tick passes for the timer of waitForRedis.
WaitTick ==
    /\ redis.wait.armed
    /\ redis.wait.timer > 0
    /\ redis' = [redis EXCEPT !.wait.timer = @ - 1]
    /\ UNCHANGED <<coreVars, proc, mw, limiter>>

\* closeRedisConnection() is called, and the quit it issued resolves or
\* rejects.
CloseRedisConnection ==
    /\ redis.closes < MaxCloses
    /\ CloseRedisCall
    /\ UNCHANGED <<coreVars, proc, mw, limiter>>
QuitOk == QuitResolved /\ UNCHANGED <<coreVars, proc, mw, limiter>>
QuitErr == QuitRejected /\ UNCHANGED <<coreVars, proc, mw, limiter>>

RedisInit ==
    /\ timeoutId = Null
    /\ isStopping = FALSE
    /\ timers = <<>>
    /\ cycles = <<>>
    /\ startCalls = <<>>
    /\ store = NoKey
    /\ storeTtl = 0
    /\ calls = <<>>
    /\ lastCall = NoCall
    /\ lastRefresh = NoRefresh
    /\ refreshCalls = 0
    /\ lastOutcome = "none"
    /\ prevOutcome = "none"
    /\ stopInFlight = FALSE
    /\ sinceEnd = -1
    /\ uncaught = FALSE
    /\ proc = NoProc
    /\ mw = NoMw
    /\ limiter = NoLimiter
    /\ \E st \in {"connecting", "ready"} : redis = RedisIn(st)

RedisNext ==
    \/ \E ms \in 1..MaxTimeout : WaitForRedis(ms)
    \/ RedisReady
    \/ \E err \in RedisErrors : RedisError(err)
    \/ WaitTimerFire
    \/ WaitTick
    \/ CloseRedisConnection
    \/ QuitOk
    \/ QuitErr

RedisSpec == RedisInit /\ [][RedisNext]_vars

\* The middlewares alone: validate is called with any schemas and any
\* request, errorHandler with any error value, under any NODE_ENV.
SchemaKinds == {"none", "strict", "page", "throws"}
Objects == {<<>>, <<"page">>, <<"page", "unknown">>}
ErrorValues ==
    {ErrorValue("ZodError", <<"Required">>,
                <<Issue("invalid_type", <<"body", "page">>, <<>>,
                        <<"Required">>)>>),
     ErrorValue("Error", <<"boom">>, <<>>),
     ErrorValue("object", <<"boom">>, <<>>),
     ErrorValue("null", <<>>, <<>>),
     ErrorValue("undefined", <<>>, <<>>)}

RunValidate ==
    /\ mw.fn = "validate"
    /\ ~mw.done
    /\ mw' = [mw EXCEPT !.done = TRUE, !.out = Validate(mw.schema, mw.req)]
    /\ UNCHANGED <<schedVars, cycleVars, startCalls, stopInFlight, sinceEnd,
                   uncaught, storeVars, callVars, proc, limiter, redis>>

RunErrorHandler ==
    /\ mw.fn = "errorHandler"
    /\ ~mw.done
    /\ mw' = [mw EXCEPT !.done = TRUE,
                        !.out.sent = ErrorHandler(mw.err, mw.req.id, proc.env)]
    /\ UNCHANGED <<schedVars, cycleVars, startCalls, stopInFlight, sinceEnd,
                   uncaught, storeVars, callVars, proc, limiter, redis>>

\* The origin function of corsMiddleware is called with the Origin header
\* of a request, under any CORS_ORIGIN and any NODE_ENV.
Origins == {"", "http://a", "http://b", "http://c"}
CorsOrigins ==
    {<<>>, <<"http://a">>, <<" ", "http://a">>, <<"http://a", ",", "http://b">>}
RunCors ==
    /\ mw.fn = "cors"
    /\ ~mw.done
    /\ mw' = [mw EXCEPT !.done = TRUE,
                        !.cors.callbacks =
                            CorsOrigin(mw.cors.origin, mw.cors.config, proc.env)]
    /\ UNCHANGED <<coreVars, proc, limiter, redis>>

MwInit ==
    /\ timeoutId = Null
    /\ isStopping = FALSE
    /\ timers = <<>>
    /\ cycles = <<>>
    /\ startCalls = <<>>
    /\ store = NoKey
    /\ storeTtl = 0
    /\ calls = <<>>
    /\ lastCall = NoCall
    /\ lastRefresh = NoRefresh
    /\ refreshCalls = 0
    /\ lastOutcome = "none"
    /\ prevOutcome = "none"
    /\ stopInFlight = FALSE
    /\ sinceEnd = -1
    /\ uncaught = FALSE
    /\ \E env \in NodeEnvs : proc = ProcIn(env)
    /\ limiter = NoLimiter
    /\ redis = NoRedis
    /\ \/ \E sq \in SchemaKinds, sp \in SchemaKinds, sb \in SchemaKinds,
             q \in Objects, pa \in Objects, b \in Objects :
             mw = MwCall("validate",
                         [query |-> sq, params |-> sp, body |-> sb],
                         NewRequest(q, pa, b), NoArg)
       \/ \E e \in ErrorValues :
             mw = MwCall("errorHandler", NoSchema,
                         NewRequest(<<>>, <<>>, <<>>), e)
       \/ \E o \in Origins, c \in CorsOrigins :
             mw = [MwCall("cors", NoSchema, NewRequest(<<>>, <<>>, <<>>),
                          NoArg)
                      EXCEPT !.cors = [origin |-> o, config |-> c,
                                       callbacks |-> <<>>]]

MwNext == RunValidate \/ RunErrorHandler \/ RunCors

MwSpec == MwInit /\ [][MwNext]_vars

HttpInit ==
    /\ timeoutId = Null
    /\ isStopping = FALSE
    /\ timers = <<>>
    /\ cycles = <<>>
    /\ startCalls = <<>>
    /\ \/ store = NoKey /\ storeTtl = 0
       \/ \E p \in Payloads, t \in 1..CACHE_TTL_SECONDS :
             store = <<"json", p>> /\ storeTtl = t
    /\ calls = <<>>
    /\ lastCall = NoCall
    /\ lastRefresh = NoRefresh
    /\ refreshCalls = 0
    /\ lastOutcome = "none"
    /\ prevOutcome = "none"
    /\ stopInFlight = FALSE
    /\ sinceEnd = -1
    /\ uncaught = FALSE
    /\ \E env \in NodeEnvs : proc = ProcIn(env)
    /\ mw = NoMw
    /\ limiter = NoLimiter
    /\ redis = NoRedis

HttpNext ==
    \/ ServerStart
    \/ \E a \in ActIds, p \in Payloads : FetchResolve(a, p)
    \/ \E a \in ActIds : FetchFail(a)
    \/ \E a \in ActIds : SetResolve(a)
    \/ \E a \in ActIds : SetFail(a)
    \/ Tick
    \/ \E q \in Queries : HttpRequest(q)
    \/ \E i \in ReadIds : ClientGetReply(i)
    \/ \E i \in ReadIds : ClientGetFail(i)
    \/ \E i \in ReadIds, p \in Payloads : ReadFetchResolve(i, p)
    \/ \E i \in ReadIds : ReadFetchFail(i)
    \/ \E i \in ReadIds : ClientSetReply(i)
    \/ \E i \in ReadIds : ClientSetFail(i)

HttpSpec == HttpInit /\ [][HttpNext]_vars

\* The repository alone: get and set are called with any value and any ttl
\* on a key that may hold any text.
RepoValues == Payloads \cup {Null, Circular}
RepoTtls == {NoTtl, CACHE_TTL_SECONDS}
RepoTexts == {<<"json", v>> : v \in Payloads \cup {Null}} \cup {Garbage}

RepoInit ==
    /\ timeoutId = Null
    /\ isStopping = FALSE
    /\ timers = <<>>
    /\ cycles = <<>>
    /\ startCalls = <<>>
    /\ \/ store = NoKey /\ storeTtl = 0
       \/ store \in RepoTexts /\ storeTtl \in RepoTtls
    /\ calls = <<>>
    /\ lastCall = NoCall
    /\ lastRefresh = NoRefresh
    /\ refreshCalls = 0
    /\ lastOutcome = "none"
    /\ prevOutcome = "none"
    /\ stopInFlight = FALSE
    /\ sinceEnd = -1
    /\ uncaught = FALSE
    /\ proc = NoProc
    /\ mw = NoMw
    /\ limiter = NoLimiter
    /\ redis = NoRedis

RepoNext ==
    \/ RepoGetCall
    \/ \E v \in RepoValues, t \in RepoTtls : RepoSetCall(v, t)
    \/ \E i \in ReadIds : ClientGetReply(i)
    \/ \E i \in ReadIds : ClientGetFail(i)
    \/ \E i \in ReadIds : ClientSetReply(i)
    \/ \E i \in ReadIds : ClientSetFail(i)
    \/ Tick

RepoSpec == RepoInit /\ [][RepoNext]_vars

TypeOK ==
    /\ timeoutId \in Handles \cup {Null}
    /\ isStopping \in BOOLEAN
    /\ DOMAIN timers \subseteq Handles
    /\ \A h \in DOMAIN timers : timers[h] \in 0..SCHEDULE_INTERVAL_MS
    /\ DOMAIN cycles \subseteq ActIds
    /\ Len(startCalls) <= MaxStarts
    /\ store = NoKey \/ store = Garbage \/ JSON_parse(store).ok
    /\ storeTtl \in NoTtl..CACHE_TTL_SECONDS
    /\ DOMAIN calls \subseteq 1..MaxReads
    /\ refreshCalls \in 0..MaxCalls
    /\ proc.env \in NodeEnvs
    /\ proc.server \in {"starting", "listening", "closing", "exited"}
    /\ mw.fn \in {"none", "validate", "errorHandler", "cors"}

\* Fairness of the event loop: time passes and a due timer's callback runs.
\* Nothing makes a pending upstream request or store write complete.
FairSpec ==
    Spec /\ WF_vars(Tick) /\ WF_vars(\E h \in Handles : TimerFire(h))

\* ------------------------------------------------------------ vocabulary
NumCycles == Cardinality(DOMAIN cycles)
\* Section 4.4: Running (a timer is pending) and CycleActive (a cycle is in
\* flight) of a scheduler that was not stopped.
Running == ~isStopping /\ timeoutId \in DOMAIN timers
CycleActive == ~isStopping /\ DOMAIN cycles # {}
\* the step is a call of start()
IsStartStep == Len(startCalls') = Len(startCalls) + 1
\* the step begins a refresh cycle
IsBeginStep == refreshCalls' = refreshCalls + 1
\* the step ends a refresh cycle
IsEndStep == \E a \in DOMAIN cycles : a \notin DOMAIN cycles'

\* ------------------------------------------------------------------- C1
\* C1: at most one scheduler-driven refresh cycle (call of refreshCache) is
\* in flight in every reachable state.
C1_NonOverlap == NumCycles <= 1

\* ------------------------------------------------------------------- C2
\* C2: a start() issued while the scheduler is Running or CycleActive
\* changes nothing: no refreshCache call, no cycle, and the pending timer
\* and timeoutId are left as they were.
C2_IdempotentStart ==
    [][ (IsStartStep /\ (Running \/ CycleActive))
          => /\ refreshCalls' = refreshCalls
             /\ cycles' = cycles
             /\ timers' = timers
             /\ timeoutId' = timeoutId ]_vars

C4_Resilience ==
    \A n \in 0..(MaxCalls - 1) :
        (lastOutcome # "none" /\ refreshCalls = n)
            ~> (refreshCalls > n \/ isStopping)

\* a cycle began after a failed cycle
C4_Witness == prevOutcome = "fail" /\ ~isStopping /\ refreshCalls >= 2

\* ------------------------------------------------------------------- C5
\* C5: no start() call is rejected and no rejection escapes a timer
\* callback; and a cycle that ends leaves, whatever its outcome, the same
\* scheduler state: one fresh timer due after the full interval and held in
\* timeoutId, or no change at all once the scheduler is stopping.
C5_ErrorContained ==
    [][ /\ ~uncaught'
        /\ \A i \in 1..Len(startCalls') : startCalls'[i].state # "rejected"
        /\ (IsEndStep /\ ~isStopping)
              => /\ timeoutId' \in DOMAIN timers' \ DOMAIN timers
                 /\ timers'[timeoutId'] = SCHEDULE_INTERVAL_MS
                 /\ DOMAIN timers' = DOMAIN timers \cup {timeoutId'}
                 /\ \A h \in DOMAIN timers : timers'[h] = timers[h]
                 /\ isStopping' = isStopping
        /\ (IsEndStep /\ isStopping)
              => <<timeoutId, isStopping, timers>>'
                    = <<timeoutId, isStopping, timers>> ]_vars

\* a cycle begun by a timer callback has failed, and the next tick is
\* scheduled at the normal interval
C5_Witness ==
    /\ lastOutcome = "fail"
    /\ refreshCalls >= 2
    /\ DOMAIN cycles = {}
    /\ timeoutId \in DOMAIN timers
    /\ timers[timeoutId] = SCHEDULE_INTERVAL_MS
    /\ \A i \in 1..Len(startCalls) : startCalls[i].state = "resolved"

\* ------------------------------------------------------------------- C6
\* C6: a cycle begun by a timer begins when no cycle is in flight and
\* exactly SCHEDULE_INTERVAL_MS after the end of the latest cycle; and while
\* stop() is not called the interval never elapses without a cycle having
\* begun.
C6_TickDiscipline ==
    [][ /\ (IsBeginStep /\ ~IsStartStep)
              => /\ DOMAIN cycles = {}
                 /\ sinceEnd = SCHEDULE_INTERVAL_MS
        /\ (~isStopping' /\ lastOutcome' # "none")
              => sinceEnd' <= SCHEDULE_INTERVAL_MS ]_vars

C8_SingleLoop ==
    /\ Cardinality(DOMAIN timers) <= 1
    /\ DOMAIN cycles # {} => DOMAIN timers = {}

\* ------------------------------------------------------------------- C9
\* C9: stop() on a scheduler that was never started leaves it Idle.
C9_StopOnIdleNoOp ==
    [][ (Idle /\ ~IsStartStep) => Idle' ]_vars

\* ------------------------------------------------------------------ C10
\* C10: a start() issued after a first cycle that completed and a stop()
\* that followed it begins a new refresh cycle, which makes two
\* refreshCache calls in all.
C10_RestartAfterStop ==
    \A i \in 1..Len(startCalls) :
        (startCalls[i].stopped /\ startCalls[i].inflight = 0
            /\ startCalls[i].calls = 1)
            => startCalls[i].began

\* ------------------------------------------------------------ vocabulary
\* c is a suffix of m: message m embeds the message c of its cause
IsSuffix(c, m) ==
    Len(c) <= Len(m) /\ SubSeq(m, Len(m) - Len(c) + 1, Len(m)) = c
\* call i settles in this step; lastCall' is its final state
Settles(i) == i \in DOMAIN calls /\ i \notin DOMAIN calls'
\* the reply of redisClient.get reaches call i in this step
GetReplied(i) ==
    /\ i \in DOMAIN calls
    /\ calls[i].pc = "GET"
    /\ IF i \in DOMAIN calls' THEN calls'[i] # calls[i]
                              ELSE lastCall'.cause \notin ClientErrors
\* the write command the service issues for stats p
StatsWrite(p) == SetexCmd(REDIS_KEY, CACHE_TTL_SECONDS, <<"json", p>>)
\* every command of every trace in the state
AllTraces ==
    {calls[i].trace : i \in DOMAIN calls}
       \cup {cycles[a].trace : a \in DOMAIN cycles}
       \cup {lastCall.trace, lastRefresh.trace}
AllCommands == UNION {{t[k] : k \in 1..Len(t)} : t \in AllTraces}
\* every command is the read of the key, the upstream GET or a stats write
OnlyStatsCommands ==
    \A c \in AllCommands :
        \/ c = GetCmd(REDIS_KEY)
        \/ c = FetchCmd
        \/ \E p \in Payloads : c = StatsWrite(p)

\* ------------------------------------------------------------------ C11
\* C11: when redisClient.get answers a getStats() call and the key holds a
\* value, the call returns that value in the same step, has issued nothing
\* but that one GET, and the store and its expiry are as they were.
C11_CacheHitNoSideEffects ==
    [][ \A i \in DOMAIN calls :
          (calls[i].op = "getStats" /\ GetReplied(i) /\ store # NoKey)
             => /\ Settles(i)
                /\ lastCall'.res = Ok(JSON_parse(store).val)
                /\ lastCall'.trace = <<GetCmd(REDIS_KEY)>>
                /\ store' = store
                /\ storeTtl' = storeTtl ]_vars

\* a getStats() call returned the cached value
C11_Witness ==
    /\ lastCall.op = "getStats"
    /\ lastCall.hit
    /\ lastCall.res.ok
    /\ store = <<"json", lastCall.res.val>>

\* ------------------------------------------------------------------ C12
\* C12: a getStats() call that finds the key absent issues the upstream
\* GET; when the fetch returns p it issues SETEX of the text of p under
\* REDIS_KEY with CACHE_TTL_SECONDS; and when that write succeeds the store
\* holds that text with that expiry, the call returns p, and its I/O was
\* exactly GET, FETCH, SETEX in that order.
C12_CacheMissPopulates ==
    [][ \A i \in DOMAIN calls :
          calls[i].op = "getStats" =>
            /\ (GetReplied(i) /\ store = NoKey)
                  => /\ i \in DOMAIN calls'
                     /\ calls'[i].trace = <<GetCmd(REDIS_KEY), FetchCmd>>
            /\ (calls[i].pc = "FETCH" /\ i \in DOMAIN calls'
                  /\ calls'[i].pc # calls[i].pc)
                  => /\ calls'[i].data \in Payloads
                     /\ calls'[i].trace
                           = Append(calls[i].trace, StatsWrite(calls'[i].data))
            /\ (Settles(i) /\ lastCall'.res.ok /\ ~lastCall'.hit)
                  => /\ lastCall'.trace = <<GetCmd(REDIS_KEY), FetchCmd,
                                            StatsWrite(calls[i].data)>>
                     /\ lastCall'.res = Ok(calls[i].data)
                     /\ store' = <<"json", calls[i].data>>
                     /\ storeTtl' = CACHE_TTL_SECONDS ]_vars

\* a getStats() call missed, fetched, wrote and returned the payload
C12_Witness ==
    /\ lastCall.op = "getStats"
    /\ lastCall.res.ok
    /\ ~lastCall.hit
    /\ lastCall.res.val \in Payloads
    /\ store = <<"json", lastCall.res.val>>
    /\ storeTtl = CACHE_TTL_SECONDS

\* ------------------------------------------------------------------ C13
\* C13: a refreshCache() call that fails leaves the store and its expiry
\* as they were; when it fails on the fetch it has issued no write command;
\* and it rejects with one error, "Failed to refresh Ethos stats cache: "
\* followed by a message that ends with the message of the cause.
C13_RefreshNoPartialState ==
    [][ \A a \in DOMAIN cycles \ DOMAIN cycles' :
          ~lastRefresh'.ok
             => /\ store' = store
                /\ storeTtl' = storeTtl
                /\ cycles[a].pc = "fetch" => lastRefresh'.trace = <<FetchCmd>>
                /\ lastRefresh'.trace = cycles[a].trace
                /\ lastRefresh'.msg[1] = "Failed to refresh Ethos stats cache: "
                /\ lastRefresh'.cause # <<>>
                /\ IsSuffix(lastRefresh'.cause, lastRefresh'.msg)
                /\ \A k \in 2..Len(lastRefresh'.msg) :
                      lastRefresh'.msg[k] # lastRefresh'.msg[1] ]_vars

\* a refresh failed on its write and the warm value is still in the store
C13_Witness ==
    /\ ~lastRefresh.ok
    /\ Len(lastRefresh.trace) = 2
    /\ store \in {<<"json", p>> : p \in Payloads}
    /\ store # lastRefresh.trace[2][4]
    /\ storeTtl > 0

\* ------------------------------------------------------------------ C14
\* C14: a getStats() call that fails, on the cache read, on the fetch or on
\* the cache write, rejects with "Failed to get Ethos stats: " followed by
\* a message that ends with the message of the cause, and returns no
\* payload; when the fetch failed the call has issued no write command.
C14_GetStatsUmbrellaError ==
    (lastCall.op = "getStats" /\ ~lastCall.res.ok)
       => /\ lastCall.res.msg[1] = "Failed to get Ethos stats: "
          /\ lastCall.cause # <<>>
          /\ IsSuffix(lastCall.cause, lastCall.res.msg)
          /\ lastCall.res.val = Null
          /\ Len(lastCall.trace) \in 1..3
          /\ lastCall.cause \in {e.msg : e \in FetchErrors}
                => lastCall.trace = <<GetCmd(REDIS_KEY), FetchCmd>>
          /\ Len(lastCall.trace) = 3 => lastCall.data \in Payloads

\* a getStats() call failed on the cache write after a successful fetch
C14_Witness ==
    /\ lastCall.op = "getStats"
    /\ ~lastCall.res.ok
    /\ Len(lastCall.trace) = 3
    /\ lastCall.cause \in ClientErrors

\* ------------------------------------------------------------------ C15
\* C15: a refreshCache() call issues the upstream GET at once, whatever the
\* store holds, and never a GET of the key; it settles having issued
\* exactly one FETCH; and when it succeeds the store holds the text of the
\* fetched payload with expiry CACHE_TTL_SECONDS.
C15_RefreshUnconditional ==
    [][ /\ \A a \in DOMAIN cycles' \ DOMAIN cycles :
              cycles'[a].trace = <<FetchCmd>>
        /\ \A a \in DOMAIN cycles \ DOMAIN cycles' :
              /\ lastRefresh'.trace \in
                    {<<FetchCmd>>, <<FetchCmd, StatsWrite(cycles[a].data)>>}
              /\ lastRefresh'.ok
                    => /\ cycles[a].data \in Payloads
                       /\ lastRefresh'.trace[2] = StatsWrite(cycles[a].data)
                       /\ store' = <<"json", cycles[a].data>>
                       /\ storeTtl' = CACHE_TTL_SECONDS ]_vars

\* a refresh succeeded and replaced the value the key held
C15_Witness ==
    /\ lastRefresh.ok
    /\ Len(lastRefresh.trace) = 2
    /\ store = lastRefresh.trace[2][4]
    /\ storeTtl = CACHE_TTL_SECONDS
    /\ lastCall.hit
    /\ <<"json", lastCall.res.val>> # store

\* ------------------------------------------------------------------ C16
\* C16: under every interleaving of the refresh cycle with getStats()
\* calls, the key is absent or holds the JSON text of one payload; and a
\* step that changes the text writes the text of the payload fetched by the
\* call or cycle whose write completes.
C16_InterleavingSafety ==
    [][ /\ store' = NoKey \/ store' \in {<<"json", p>> : p \in Payloads}
        /\ (store' # store /\ store' # NoKey)
              => \/ \E i \in DOMAIN calls :
                       /\ Settles(i)
                       /\ calls[i].data \in Payloads
                       /\ store' = <<"json", calls[i].data>>
                 \/ \E a \in DOMAIN cycles \ DOMAIN cycles' :
                       /\ cycles[a].data \in Payloads
                       /\ store' = <<"json", cycles[a].data>> ]_vars

\* a refresh and a getStats() miss both wrote; the later write is what the
\* key holds
C16_Witness ==
    /\ lastRefresh.ok
    /\ Len(lastRefresh.trace) = 2
    /\ lastCall.op = "getStats"
    /\ lastCall.res.ok
    /\ ~lastCall.hit
    /\ store = <<"json", lastCall.res.val>>
    /\ store # lastRefresh.trace[2][4]

\* ------------------------------------------------------------------ C17
\* C17: every write command issued by getStats() or refreshCache() is a
\* SETEX of REDIS_KEY with CACHE_TTL_SECONDS; no plain SET and no delete is
\* issued; and the key, once present, goes away only by expiry.
C17_PersistedLayout ==
    [][ /\ OnlyStatsCommands
        /\ OnlyStatsCommands'
        /\ (store' # store /\ store' # NoKey) => storeTtl' = CACHE_TTL_SECONDS
        /\ (store # NoKey /\ store' = NoKey) => storeTtl = 1
        /\ store # NoKey => storeTtl \in 1..CACHE_TTL_SECONDS ]_vars

\* both a refresh and a getStats() call have written the key
C17_Witness ==
    /\ lastRefresh.ok
    /\ Len(lastRefresh.trace) = 2
    /\ lastCall.op = "getStats"
    /\ Len(lastCall.trace) = 3
    /\ lastCall.res.ok
    /\ store # NoKey

\* ------------------------------------------------------------------ C18
\* C18: repository.get settles in one of three ways told apart by the
\* result: a missing key gives null without error; a text that is not JSON
\* gives the error "Failed to parse JSON for key ..."; a failure of the
\* client gives the error "Redis get operation failed for key ...", which
\* differs from the former.
C18_GetOutcomes ==
    [][ \A i \in DOMAIN calls :
          (calls[i].op = "get" /\ Settles(i)) =>
            LET r == lastCall'.res IN
            /\ lastCall'.trace = <<GetCmd(calls[i].key)>>
            /\ IF lastCall'.cause \in ClientErrors
                 THEN /\ ~r.ok
                      /\ r.msg[1] = "Redis get operation failed for key "
                      /\ IsSuffix(lastCall'.cause, r.msg)
                 ELSE /\ store = NoKey => r = Ok(Null)
                      /\ store = Garbage
                            => /\ ~r.ok
                               /\ r.msg[1] = "Failed to parse JSON for key "
                      /\ store \notin {NoKey, Garbage}
                            => r = Ok(store[2]) ]_vars

\* a get found a text that is not JSON
C18_Witness ==
    /\ lastCall.op = "get"
    /\ ~lastCall.res.ok
    /\ lastCall.cause = <<>>
    /\ store = Garbage

\* ------------------------------------------------------------------ C19
\* C19 as claimed: every repository.set call issues exactly one store
\* command, SETEX when a ttl is given and plain SET when it is not.
C19_OneCommandPerCall ==
    lastCall.op = "set"
       => /\ Len(lastCall.trace) = 1
          /\ lastCall.trace[1][1] = IF lastCall.ttl # NoTtl THEN "SETEX" ELSE "SET"

\* C19 as amended: a repository.set call whose value JSON.stringify can
\* serialize issues exactly one store command: SETEX (key, ttl, text) when
\* a ttl is given, plain SET (key, text) when it is not, and then the key
\* never expires; a call whose value cannot be serialized issues none.
C19_OneCommandIfSerialized ==
    [][ /\ (lastCall'.op = "set")
              => lastCall'.trace =
                    IF lastCall'.data = Circular THEN <<>>
                    ELSE IF lastCall'.ttl # NoTtl
                      THEN <<SetexCmd(lastCall'.key, lastCall'.ttl,
                                      <<"json", lastCall'.data>>)>>
                      ELSE <<SetCmd(lastCall'.key, <<"json", lastCall'.data>>)>>
        /\ \A i \in DOMAIN calls' :
              calls'[i].op = "set" => Len(calls'[i].trace) = 1
        /\ \A i \in DOMAIN calls :
              (calls[i].op = "set" /\ Settles(i) /\ lastCall'.res.ok)
                 => /\ store' = <<"json", calls[i].data>>
                    /\ storeTtl' = calls[i].ttl
        /\ (storeTtl = NoTtl /\ store # NoKey) => store' # NoKey ]_vars

\* a set without ttl was executed and time has passed
C19_Witness ==
    /\ lastCall.op = "set"
    /\ lastCall.res.ok
    /\ lastCall.ttl = NoTtl
    /\ lastCall.trace = <<SetCmd(REDIS_KEY, store)>>
    /\ storeTtl = NoTtl

\* ------------------------------------------------------------------ C20
\* C20: a repository.set call whose value cannot be serialized issues no
\* store command and rejects with an error that differs from the one of a
\* failure of the store, "Redis set operation failed for key ...".
C20_SerializationErrorDistinct ==
    (lastCall.op = "set" /\ lastCall.data = Circular)
       => /\ lastCall.trace = <<>>
          /\ ~lastCall.res.ok
          /\ lastCall.res.msg[1] # "Redis set operation failed for key "

\* ------------------------------------------------------------------ C21
\* the elements of a message
Elements(m) == {m[k] : k \in 1..Len(m)}
\* the rejection of axios.get that has message c
FetchErrorOf(c) == CHOOSE e \in FetchErrors : e.msg = c
\* the error fetchStatsFromApi threw, as refreshCache and getStats wrap it
Unwrapped(m) == SubSeq(m, 2, Len(m))
\* the taxonomy of the error thrown for the rejection e of axios.get
FetchTaxonomy(e, thrown) ==
    /\ IsSuffix(e.msg, thrown)
    /\ e.status # "none" => e.status \in Elements(thrown)
    /\ e.axios <=> thrown[1] = "Failed to fetch stats from Ethos API: "
    /\ ~e.axios
          <=> thrown[1] = "Unexpected error fetching stats from Ethos API: "

Requests(t) == {k \in 1..Len(t) : t[k] = FetchCmd}
\* every getStats() call has issued at most one upstream request, every
\* refreshCache() call exactly one
OneRequestPerCall ==
    /\ \A i \in DOMAIN calls : Cardinality(Requests(calls[i].trace)) <= 1
    /\ Cardinality(Requests(lastCall.trace)) <= 1
    /\ \A a \in DOMAIN cycles : Cardinality(Requests(cycles[a].trace)) = 1
    /\ lastRefresh # NoRefresh
          => Cardinality(Requests(lastRefresh.trace)) = 1

\* C22: every getStats() call issues at most one upstream request and
\* every refreshCache() call exactly one, whether the request succeeds or
\* fails; and after a failed refresh the next refreshCache() call is made
\* by the callback of a due timer only.
C22_NoInlineRetry ==
    [][ /\ OneRequestPerCall
        /\ OneRequestPerCall'
        /\ (lastOutcome = "fail" /\ DOMAIN cycles' \ DOMAIN cycles # {})
              => \E h \in DOMAIN timers \ DOMAIN timers' : timers[h] = 0 ]_vars

\* a refresh failed on its fetch and the next tick has begun another
C22_Witness ==
    /\ prevOutcome = "fail"
    /\ refreshCalls = 2
    /\ DOMAIN cycles # {}
    /\ \A a \in DOMAIN cycles : cycles[a].trace = <<FetchCmd>>

RefreshesSucceed ==
    \/ lastOutcome = "ok"
    \/ lastOutcome = "none" /\ prevOutcome = "ok"

\* C29: while the scheduler is running and its refreshes succeed, every
\* getStats() call whose read is answered after a successful cycle is a
\* cache hit and issues no upstream request.
C29_StaysWarm ==
    [][ \A i \in DOMAIN calls :
          (calls[i].op = "getStats" /\ GetReplied(i) /\ ~isStopping
              /\ startCalls # <<>> /\ RefreshesSucceed)
             => /\ Settles(i)
                /\ lastCall'.hit
                /\ lastCall'.trace = <<GetCmd(REDIS_KEY)>> ]_vars

\* ------------------------------------------------------------------ C30
\* C30: once a refresh cycle has written its payload, a getStats() call
\* whose upstream request was issued before the one of that cycle does not
\* change what the key holds.
C30_NoRegression ==
    [][ \A i \in DOMAIN calls :
          (calls[i].op = "getStats" /\ calls[i].stale /\ Settles(i))
             => store' = store ]_vars

\* ------------------------------------------------------------------ C24
\* the latest request on the stats route reached getStats() and was answered
Served == lastCall.op = "GET /stats" /\ lastCall.trace # <<>>
\* what res.json(stats) sends for stats p
StatsResponse(p) == Json(200, "", <<>>, <<>>, <<>>, "", p)

\* C24 as the specification states it: the stats route answers 200 with
\* exactly the payload of getStats(), and for any error of getStats() with
\* a generic 500 that carries neither the error's message nor a stack.
C24_GenericFailure ==
    Served =>
       /\ Len(lastCall.resp) = 1
       /\ lastCall.res.ok => lastCall.resp[1] = StatsResponse(lastCall.res.val)
       /\ ~lastCall.res.ok =>
             /\ lastCall.resp[1].status = 500
             /\ lastCall.resp[1].error = "Internal Server Error"
             /\ lastCall.resp[1].message = <<>>
             /\ lastCall.resp[1].stack = <<>>

\* C24: the stats route answers 200 with exactly the payload of getStats();
\* for any error of getStats() it answers once with status 500, the generic
\* error text and the request id; unless NODE_ENV is 'development' the body
\* carries neither the error's message nor a stack, and in development it
\* carries both.
C24_EndpointResponse ==
    Served =>
       /\ Len(lastCall.resp) = 1
       /\ lastCall.res.ok => lastCall.resp[1] = StatsResponse(lastCall.res.val)
       /\ ~lastCall.res.ok =>
             /\ lastCall.resp[1].status = 500
             /\ lastCall.resp[1].error = "Internal Server Error"
             /\ lastCall.resp[1].requestId = lastCall.req.id
             /\ lastCall.resp[1].details = <<>>
             /\ lastCall.resp[1].payload = Null
             /\ proc.env # "development" =>
                   /\ lastCall.resp[1].message = <<>>
                   /\ lastCall.resp[1].stack = <<>>
             /\ proc.env = "development" =>
                   /\ lastCall.resp[1].message = lastCall.res.msg
                   /\ lastCall.resp[1].stack # <<>>

C24_Witness ==
    /\ Served
    /\ ~lastCall.res.ok
    /\ proc.env = "production"
    /\ Len(lastCall.trace) = 2
    /\ lastCall.res.msg[1] = "Failed to get Ethos stats: "
    /\ lastCall.resp = <<Json(500, "Internal Server Error", <<>>, <<>>, <<>>,
                              RequestId, Null)>>

\* ------------------------------------------------------------------ C25
\* C25: a GET on the stats route with an unknown query key is answered once,
\* with status 400, 'Validation failed', one detail per unknown key and the
\* request id, and getStats() is not called for it: the request issues no
\* cache read and no upstream request, and the key is left as it was.
C25_UnknownParamRejected ==
    /\ \A i \in DOMAIN calls :
          calls[i].op = "GET /stats" => calls[i].req.query = <<>>
    /\ (lastCall.op = "GET /stats" /\ lastCall.req.query # <<>>) =>
          /\ lastCall.trace = <<>>
          /\ lastCall.res = NoRes
          /\ Len(lastCall.resp) = 1
          /\ lastCall.resp[1].status = 400
          /\ lastCall.resp[1].error = "Validation failed"
          /\ lastCall.resp[1].requestId = lastCall.req.id
          /\ Len(lastCall.resp[1].details) = Len(lastCall.req.query)
          /\ lastCall.resp[1].payload = Null

C25_Witness ==
    /\ lastCall.op = "GET /stats"
    /\ lastCall.req.query = <<"page", "unknown">>
    /\ lastCall.resp[1].status = 400
    /\ lastCall.resp[1].details[2].message = <<"Unrecognized key: ", "unknown">>
    /\ store = NoKey
    /\ refreshCalls > 0

\* ------------------------------------------------------------------ C27
\* validate has returned
Validated == mw.fn = "validate" /\ mw.done
\* slot k has a schema, and that schema rejects what the request holds
Supplied(k) == mw.schema[Slots[k]] # "none"
Rejects(k) == Supplied(k) /\ ~Parse(mw.schema[Slots[k]], mw.req[Slots[k]]).ok
Rejecting == {k \in 1..Len(Slots) : Rejects(k)}
FirstRejecting == CHOOSE k \in Rejecting : \A j \in Rejecting : k <= j
\* the supplied slots among the first n, in the order query, params, body
RECURSIVE SuppliedUpTo(_)
SuppliedUpTo(n) ==
    IF n = 0 THEN <<>>
    ELSE SuppliedUpTo(n - 1) \o (IF Supplied(n) THEN <<Slots[n]>> ELSE <<>>)

\* C27: validate has exactly one outcome.  When every supplied schema
\* accepts, checked in the order query, params, body, it calls next() once
\* without an argument and sends nothing; when the first rejecting schema
\* throws a ZodError it sends one 400 'Validation failed' response with
\* the details and the request id and does not call next; when it throws
\* another error it calls next(error) once and sends nothing.
C27_ValidateOneOutcome ==
    Validated =>
       /\ Len(mw.out.nextCalls) + Len(mw.out.sent) = 1
       /\ Rejecting = {} =>
             /\ mw.out.nextCalls = <<NoArg>>
             /\ mw.out.sent = <<>>
             /\ mw.out.parsed = SuppliedUpTo(Len(Slots))
       /\ Rejecting # {} =>
             LET k == FirstRejecting
                 e == Parse(mw.schema[Slots[k]], mw.req[Slots[k]]).err
             IN  /\ mw.out.parsed = SuppliedUpTo(k)
                 /\ e.kind = "ZodError" =>
                       /\ mw.out.nextCalls = <<>>
                       /\ Len(mw.out.sent) = 1
                       /\ mw.out.sent[1].status = 400
                       /\ mw.out.sent[1].error = "Validation failed"
                       /\ mw.out.sent[1].details # <<>>
                       /\ mw.out.sent[1].requestId = mw.req.id
                 /\ e.kind # "ZodError" =>
                       /\ mw.out.nextCalls = <<e>>
                       /\ e # NoArg
                       /\ mw.out.sent = <<>>

C27_Witness ==
    /\ Validated
    /\ mw.schema = [query |-> "page", params |-> "none", body |-> "strict"]
    /\ mw.req.query = <<"page", "unknown">>
    /\ mw.req.body = <<"page", "unknown">>
    /\ mw.out.parsed = <<"query", "body">>
    /\ mw.out.req.query = <<"page">>
    /\ mw.out.nextCalls = <<>>
    /\ Len(mw.out.sent[1].details) = 2

\* ------------------------------------------------------------------ C28
\* errorHandler has returned
Handled == mw.fn = "errorHandler" /\ mw.done
\* the body holds the generic error text and the request id and no more
GenericBody(r) ==
    /\ r.error = "Internal Server Error"
    /\ r.requestId = mw.req.id
    /\ r.details = <<>>
    /\ r.payload = Null

\* C28 as the specification states it: errorHandler responds once to every
\* error value, with 400 and the details for a ZodError and with 500
\* otherwise; outside development the 500 body holds only the generic text
\* and the request id; in development it also holds message and stack.
C28_DevelopmentDetail ==
    Handled =>
       /\ Len(mw.out.sent) = 1
       /\ mw.err.kind = "ZodError" =>
             /\ mw.out.sent[1].status = 400
             /\ mw.out.sent[1].details # <<>>
       /\ mw.err.kind # "ZodError" =>
             /\ mw.out.sent[1].status = 500
             /\ GenericBody(mw.out.sent[1])
             /\ proc.env # "development" =>
                   /\ mw.out.sent[1].message = <<>>
                   /\ mw.out.sent[1].stack = <<>>
             /\ proc.env = "development" =>
                   /\ mw.out.sent[1].message = mw.err.msg
                   /\ mw.out.sent[1].stack # <<>>

\* C28: errorHandler responds once to every error value, with 400,
\* 'Validation failed', the details and the request id for a ZodError and
\* with 500 otherwise; the 500 body holds only the generic text and the
\* request id, except that in development, for a value that is an Error, it
\* also holds the error's message and stack.
C28_ErrorHandlerResponse ==
    Handled =>
       /\ Len(mw.out.sent) = 1
       /\ mw.out.nextCalls = <<>>
       /\ mw.err.kind = "ZodError" =>
             /\ mw.out.sent[1].status = 400
             /\ mw.out.sent[1].error = "Validation failed"
             /\ Len(mw.out.sent[1].details) = Len(mw.err.issues)
             /\ mw.out.sent[1].requestId = mw.req.id
             /\ mw.out.sent[1].message = <<>>
             /\ mw.out.sent[1].stack = <<>>
       /\ mw.err.kind # "ZodError" =>
             /\ mw.out.sent[1].status = 500
             /\ GenericBody(mw.out.sent[1])
             /\ (proc.env = "development" /\ mw.err.kind = "Error") =>
                   /\ mw.out.sent[1].message = mw.err.msg
                   /\ mw.out.sent[1].stack = StackOf(mw.err)
             /\ (proc.env # "development" \/ mw.err.kind # "Error") =>
                   /\ mw.out.sent[1].message = <<>>
                   /\ mw.out.sent[1].stack = <<>>

C28_Witness ==
    /\ Handled
    /\ mw.err.kind = "object"
    /\ mw.err.msg # <<>>
    /\ proc.env = "development"
    /\ mw.out.sent = <<Json(500, "Internal Server Error", <<>>, <<>>, <<>>,
                            RequestId, Null)>>

\* ------------------------------------------------------------------ C26
\* every "quit" of the log comes right after a "stop"
RECURSIVE QuitsFollowStops(_)
QuitsFollowStops(log) ==
    IF log = <<>> THEN TRUE
    ELSE /\ Last(log) = "quit" => (Len(log) > 1 /\ log[Len(log) - 1] = "stop")
         /\ QuitsFollowStops(SubSeq(log, 1, Len(log) - 1))

\* C26: once the server listens the scheduler's start() has been called;
\* on every shutdown path, after one signal or several and whether the
\* quit succeeds or fails, each call of closeRedisConnection()
\* comes right after a call of stop(), the scheduler is stopped with no
\* timer pending when the connection is released, and the process exits
\* only after both.
C26_LifecycleOrder ==
    /\ proc.server # "starting" =>
          /\ startCalls # <<>>
          /\ proc.log # <<>>
          /\ proc.log[1] = "start"
    /\ QuitsFollowStops(proc.log)
    /\ proc.quits > 0 => (isStopping /\ timeoutId = Null /\ timers = <<>>)
    /\ proc.server = "exited" =>
          \E k \in 2..Len(proc.log) :
              proc.log[k - 1] = "stop" /\ proc.log[k] = "quit"

C26_Witness ==
    /\ proc.server = "exited"
    /\ proc.code = 0
    /\ proc.log = <<"start", "stop", "quit", "stop", "quit", "disconnect">>
    /\ DOMAIN cycles # {}
    /\ stopInFlight

\* ------------------------------------------------------------------ C31
\* C31: once closeRedisConnection() has been called by the shutdown, no
\* refresh cycle of the scheduler is in flight, so none issues its upstream
\* request's store write afterwards.
C31_ShutdownNoRace ==
    redis.closes > 0 => DOMAIN cycles = {}

\* ------------------------------------------------------------------ C32
\* C32: a client that has made no more than RATE_LIMIT_MAX_REQUESTS
\* requests within any window of RATE_LIMIT_WINDOW_MS is not answered with
\* 429, and its counter holds no more hits than its requests of the
\* current window.
C32_WindowedCounter ==
    \A k \in Clients :
        limiter[k].clean =>
           /\ limiter[k].last # "429"
           /\ limiter[k].hits <= RATE_LIMIT_MAX_REQUESTS

\* ------------------------------------------------------------------ C33
\* the step is an event of the client, the call of waitForRedis, or its
\* timer coming due
IsEvent == redis'.events = redis.events + 1
IsWaitCall == redis.wait.state = "none" /\ redis'.wait.state # "none"
IsTimeout ==
    /\ redis.wait.armed
    /\ redis.wait.timer = 0
    /\ ~redis'.wait.armed
    /\ ~IsEvent
Waiting == redis.wait.state = "pending"

\* C33: waitForRedis(timeoutMs) resolves at once when the client is ready
\* and is pending otherwise; while it is pending a 'ready' event resolves
\* it, an 'error' event whose message includes AUTH rejects it with that
\* error, any other 'error' event leaves it pending, and the timer coming
\* due rejects it with the timeout error; once settled it never changes.
C33_WaitSettlesOnce ==
    [][ /\ IsWaitCall =>
              redis'.wait.state
                 = IF redis.status = "ready" THEN "resolved" ELSE "pending"
        /\ (Waiting /\ IsEvent /\ redis'.event = <<"ready">>) =>
              redis'.wait.state = "resolved"
        /\ (Waiting /\ IsEvent /\ redis'.event = AuthError) =>
              /\ redis'.wait.state = "rejected"
              /\ redis'.wait.reason = AuthError
        /\ (Waiting /\ IsEvent /\ redis'.event \in RedisErrors \ {AuthError}) =>
              /\ redis'.wait.state = "pending"
              /\ redis'.wait.onReady
              /\ redis'.wait.armed
        /\ (Waiting /\ IsTimeout) =>
              /\ redis'.wait.state = "rejected"
              /\ redis'.wait.reason = TimeoutError(redis.wait.ms)
        /\ redis.wait.state \in {"resolved", "rejected"} =>
              /\ redis'.wait.state = redis.wait.state
              /\ redis'.wait.reason = redis.wait.reason ]_vars

\* ------------------------------------------------------------------ C35
\* C35: closeRedisConnection() never rejects.  Called when the connection
\* has ended it resolves without a command; otherwise it issues one quit,
\* and when the quit settles the call resolves and the connection has
\* ended: after the quit alone when it succeeded, after the failure was
\* logged and disconnect() called when it failed.
C35_CloseNeverRejects ==
    [][ /\ redis'.lastClose.res # "rejected"
        /\ redis'.closes = redis.closes + 1 =>
              IF redis.status = "end"
                THEN /\ redis'.pending = redis.pending
                     /\ redis'.status = "end"
                     /\ redis'.lastClose
                          = [res |-> "resolved", trace |-> <<>>, wasEnd |-> TRUE]
                ELSE /\ redis'.pending = redis.pending + 1
                     /\ redis'.lastClose = redis.lastClose
        /\ redis'.pending = redis.pending - 1 =>
              /\ redis'.lastClose.res = "resolved"
              /\ redis'.lastClose.trace
                    \in {<<"quit">>, <<"quit", "log", "disconnect">>}
              /\ redis'.status = "end" ]_vars

C35_Witness ==
    /\ redis.closes = 2
    /\ redis.pending = 0
    /\ redis.status = "end"
    /\ redis.lastClose.trace = <<"quit", "log", "disconnect">>
    /\ redis.lastClose.res = "resolved"

\* ------------------------------------------------------------------ C34
\* the origin function has returned
CorsDecided == mw.fn = "cors" /\ mw.done
\* the origins CORS_ORIGIN names
Allowlist(corsOrigin) ==
    {corsOrigin[k] : k \in 1..Len(corsOrigin)} \ {",", " "}

\* C34: the origin function calls back once.  It allows a request without
\* an Origin header; when CORS_ORIGIN is set it allows exactly the origins
\* of that list, under every NODE_ENV; when it is not set it allows every
\* origin in development and none otherwise.  It rejects with the error
\* 'Not allowed by CORS'.
C34_CorsDecision ==
    CorsDecided =>
       /\ Len(mw.cors.callbacks) = 1
       /\ mw.cors.callbacks[1] \in {CorsAllow, CorsDeny}
       /\ mw.cors.callbacks[1].allow <=>
             IF mw.cors.origin = "" THEN TRUE
             ELSE IF mw.cors.config # <<>>
               THEN mw.cors.origin \in Allowlist(mw.cors.config)
             ELSE proc.env = "development"

C34_Witness ==
    /\ CorsDecided
    /\ mw.cors.origin = "http://c"
    /\ mw.cors.config = <<"http://a", ",", "http://b">>
    /\ proc.env = "development"
    /\ mw.cors.callbacks = <<CorsDeny>>

====
